---- MODULE Spec2Model ----
(***************************************************************************)
(* A model of yabridge's VST3 plugin proxy: the capability descriptor      *)
(* (Vst3PluginProxy::ConstructArgs), the monolithic proxy object built     *)
(* from it (Vst3PluginProxy), its capability query (queryInterface), the   *)
(* Construct / Initialize / Destruct exchanges with the Wine plugin host,  *)
(* and the re-discovery of the supported interfaces after initialize().    *)
(***************************************************************************)
EXTENDS Integers, Sequences, FiniteSets, TLC

----------------------------------------------------------------------------
(* Bounds of the model *)

\* Number of objects the Wine plugin host will instantiate in one run.
MaxInstances == 2
\* Number of references the host holds beyond the first one of each proxy.
MaxRefs == 1
\* Number of IPluginBase::initialize() calls the host makes on the proxies
\* that exist.
MaxInits == 2
\* Number of capability queries another thread makes while one re-discovery
\* is in progress.
MaxQueries == 2
\* Number of threads of the host that call into the plugin side.
MaxThreads == 2
\* Number of send_message calls those threads make in one run.
MaxSends == 2
\* Number of times a handler calls the peer back while it handles a request,
\* in one run.
MaxCallbacks == 2
\* Number of add and remove calls made on the channel registries in one run.
MaxRegistryCalls == 4
\* Largest instance id the socket file names are compared for.
MaxEndpointId == 12

----------------------------------------------------------------------------
(* The closed catalogue of interfaces *)

\* The base classes of Vst3PluginProxy: one sub-implementation per optional
\* interface, in the order of the class declaration.
Caps ==
    { "YaAudioPresentationLatency", "YaAudioProcessor", "YaAutomationState",
      "YaComponent", "YaConnectionPoint", "YaEditController",
      "YaEditController2", "YaEditControllerHostEditing", "YaInfoListener",
      "YaKeyswitchController", "YaMidiLearn", "YaMidiMapping",
      "YaNoteExpressionController", "YaNoteExpressionPhysicalUIMapping",
      "YaParameterFunctionName", "YaPluginBase", "YaPrefetchableSupport",
      "YaProcessContextRequirements", "YaProgramListData", "YaUnitData",
      "YaUnitInfo", "YaXmlRepresentationController" }

\* The interface a sub-implementation stands for (the interface whose iid is
\* compared in its QUERY_INTERFACE block of Vst3PluginProxy::queryInterface).
InterfaceOf ==
    [c \in Caps |->
        CASE c = "YaAudioPresentationLatency" -> "IAudioPresentationLatency"
          [] c = "YaAudioProcessor" -> "IAudioProcessor"
          [] c = "YaAutomationState" -> "IAutomationState"
          [] c = "YaComponent" -> "IComponent"
          [] c = "YaConnectionPoint" -> "IConnectionPoint"
          [] c = "YaEditController" -> "IEditController"
          [] c = "YaEditController2" -> "IEditController2"
          [] c = "YaEditControllerHostEditing" -> "IEditControllerHostEditing"
          [] c = "YaInfoListener" -> "IInfoListener"
          [] c = "YaKeyswitchController" -> "IKeyswitchController"
          [] c = "YaMidiLearn" -> "IMidiLearn"
          [] c = "YaMidiMapping" -> "IMidiMapping"
          [] c = "YaNoteExpressionController" -> "INoteExpressionController"
          [] c = "YaNoteExpressionPhysicalUIMapping" ->
                 "INoteExpressionPhysicalUIMapping"
          [] c = "YaParameterFunctionName" -> "IParameterFunctionName"
          [] c = "YaPluginBase" -> "IPluginBase"
          [] c = "YaPrefetchableSupport" -> "IPrefetchableSupport"
          [] c = "YaProcessContextRequirements" ->
                 "IProcessContextRequirements"
          [] c = "YaProgramListData" -> "IProgramListData"
          [] c = "YaUnitData" -> "IUnitData"
          [] c = "YaUnitInfo" -> "IUnitInfo"
          [] c = "YaXmlRepresentationController" ->
                 "IXmlRepresentationController"]

\* The interface ids of the catalogue.
CatalogueIids == {InterfaceOf[c] : c \in Caps}

\* Every interface id a host may ask for: the catalogue, the base identity
\* interface FUnknown, and an interface the proxy does not know (IMessage).
Iids == CatalogueIids \cup {"FUnknown", "IMessage"}

\* tresult values.
kResultOk == "kResultOk"
kNoInterface == "kNoInterface"
kInvalidArgument == "kInvalidArgument"
kNotImplemented == "kNotImplemented"
kResultFalse == "kResultFalse"

nullptr == "nullptr"

NoteExpressionPhysicalUIMapping == "YaNoteExpressionPhysicalUIMapping"

Min(S) == CHOOSE x \in S : \A y \in S : x <= y

----------------------------------------------------------------------------
(* The real plugin objects living in the Wine plugin host *)

\* The catalogue in a fixed order, to number its interfaces.
CatalogueOrder ==
    << "IAudioPresentationLatency", "IAudioProcessor", "IAutomationState",
       "IComponent", "IConnectionPoint", "IEditController",
       "IEditController2", "IEditControllerHostEditing", "IInfoListener",
       "IKeyswitchController", "IMidiLearn", "IMidiMapping",
       "INoteExpressionController", "INoteExpressionPhysicalUIMapping",
       "IParameterFunctionName", "IPluginBase", "IPrefetchableSupport",
       "IProcessContextRequirements", "IProgramListData", "IUnitData",
       "IUnitInfo", "IXmlRepresentationController" >>

\* The interfaces whose number has binary digit b set. Over the five digits
\* every interface is in some set and outside some other one, and any two
\* interfaces are told apart by at least one set.
DigitSet(b) ==
    {CatalogueOrder[n] : n \in {m \in DOMAIN CatalogueOrder :
                                   (m \div (2 ^ b)) % 2 = 1}}

InterfaceSets == {DigitSet(b) : b \in 0..4}

\* A plugin that only exposes its edit controller after initialize() (the
\* Waves case of InitializeResponse's comment).
WavesObject ==
    [pre |-> {"IPluginBase", "IComponent", "IAudioProcessor"},
     post |-> {"IPluginBase", "IComponent", "IAudioProcessor",
               "IEditController"}]

\* A plugin that answers every interface until it is initialized, and none
\* afterwards.
ShrinkingObject == [pre |-> CatalogueIids, post |-> {}]

\* A real object: the interfaces its queryInterface answers before and after
\* a successful IPluginBase::initialize().
RealObjects ==
    {[pre |-> S, post |-> S] : S \in InterfaceSets}
        \cup {WavesObject, ShrinkingObject}

\* The interfaces an instance of the Wine plugin host answers right now.
Answers(instance) ==
    IF instance.initialized THEN instance.object.post ELSE instance.object.pre

----------------------------------------------------------------------------
(* Vst3PluginProxy::ConstructArgs: the capability descriptor *)

\* Ya<Interface>::ConstructArgs(object): `supported` is whether the object
\* could be cast to the interface (FUnknownPtr<I>(object)).
SubConstructArgs(c, object) == InterfaceOf[c] \in object

\* Ya<Interface>::ConstructArgs(): a default constructed `supported` field.
\* The default constructors initialise no member (as the one of
\* Vst3PluginProxy::ConstructArgs), so the flag holds either value.
DefaultConstructArgs == BOOLEAN

\* ConstructArgs(object, instance_id): the member initialiser list names
\* every sub-implementation's arguments except
\* note_expression_physical_ui_mapping_args, which is default constructed.
\* The result is the set of descriptors the constructor can produce.
ConstructArgs(object, instance_id) ==
    { [instance_id |-> instance_id,
       supported |->
           [c \in Caps |->
               IF c = NoteExpressionPhysicalUIMapping
               THEN d
               ELSE SubConstructArgs(c, object)]] :
      d \in DefaultConstructArgs }

----------------------------------------------------------------------------
(* Vst3PluginProxy *)

\* A constructor that forgets the reference count macro.
Vst3PluginProxy_NoRef(args) ==
    [state |-> "alive",
     bases |-> [c \in Caps |-> args.supported[c]],
     arguments_ |-> args,
     refCount |-> 0]

\* A constructor that keeps a default instance id.
Vst3PluginProxy_ZeroId(args) ==
    [state |-> "alive",
     bases |-> [c \in Caps |-> args.supported[c]],
     arguments_ |-> [args EXCEPT !.instance_id = 0],
     refCount |-> 1]

\* Vst3PluginProxy(ConstructArgs&& args): every base class is constructed from
\* its member of args, arguments_ keeps args, FUNKNOWN_CTOR sets the
\* reference count to one.
Vst3PluginProxy(args) ==
    [state |-> "alive",
     bases |-> [c \in Caps |-> args.supported[c]],
     arguments_ |-> args,
     refCount |-> 1]

\* Ya<Interface>::supported()
supported(proxy, c) == proxy.bases[c]

iidEqual(a, b) == a = b

\* The blocks of queryInterface in the order of the code:
\* <<sub-implementation checked, interface id compared, pointer returned>>.
QueryOrder ==
    << <<"YaPluginBase", "FUnknown", "IPluginBase">>,
       <<"YaPluginBase", "IPluginBase", "IPluginBase">>,
       <<"YaAudioPresentationLatency", "IAudioPresentationLatency",
         "IAudioPresentationLatency">>,
       <<"YaAudioProcessor", "IAudioProcessor", "IAudioProcessor">>,
       <<"YaAutomationState", "IAutomationState", "IAutomationState">>,
       <<"YaComponent", "IComponent", "IComponent">>,
       <<"YaConnectionPoint", "IConnectionPoint", "IConnectionPoint">>,
       <<"YaEditController", "IEditController", "IEditController">>,
       <<"YaEditController2", "IEditController2", "IEditController2">>,
       <<"YaEditControllerHostEditing", "IEditControllerHostEditing",
         "IEditControllerHostEditing">>,
       <<"YaInfoListener", "IInfoListener", "IInfoListener">>,
       <<"YaKeyswitchController", "IKeyswitchController",
         "IKeyswitchController">>,
       <<"YaMidiLearn", "IMidiLearn", "IMidiLearn">>,
       <<"YaMidiMapping", "IMidiMapping", "IMidiMapping">>,
       <<"YaNoteExpressionController", "INoteExpressionController",
         "INoteExpressionController">>,
       <<"YaNoteExpressionPhysicalUIMapping",
         "INoteExpressionPhysicalUIMapping",
         "INoteExpressionPhysicalUIMapping">>,
       <<"YaParameterFunctionName", "IParameterFunctionName",
         "IParameterFunctionName">>,
       <<"YaPrefetchableSupport", "IPrefetchableSupport",
         "IPrefetchableSupport">>,
       <<"YaProcessContextRequirements", "IProcessContextRequirements",
         "IProcessContextRequirements">>,
       <<"YaProgramListData", "IProgramListData", "IProgramListData">>,
       <<"YaUnitData", "IUnitData", "IUnitData">>,
       <<"YaUnitInfo", "IUnitInfo", "IUnitInfo">>,
       <<"YaXmlRepresentationController", "IXmlRepresentationController",
         "IXmlRepresentationController">> >>

\* A queryInterface whose blocks are not guarded by supported().
queryInterface_Unguarded(proxy, _iid) ==
    LET hits == {i \in DOMAIN QueryOrder : iidEqual(_iid, QueryOrder[i][2])}
    IN  IF hits = {}
        THEN [result |-> kNoInterface, obj |-> nullptr, addRef |-> FALSE]
        ELSE [result |-> kResultOk, obj |-> QueryOrder[Min(hits)][3],
              addRef |-> TRUE]

\* A queryInterface that answers the base identity interface through any
\* supported sub-implementation, as each Ya<Interface>::queryInterface does
\* on its own.
queryInterface_AnyBase(proxy, _iid) ==
    LET hits == {i \in DOMAIN QueryOrder :
                    /\ supported(proxy, QueryOrder[i][1])
                    /\ \/ iidEqual(_iid, QueryOrder[i][2])
                       \/ iidEqual(_iid, "FUnknown")}
    IN  IF hits = {}
        THEN [result |-> kNoInterface, obj |-> nullptr, addRef |-> FALSE]
        ELSE [result |-> kResultOk, obj |-> QueryOrder[Min(hits)][3],
              addRef |-> TRUE]

\* Vst3PluginProxy::queryInterface(_iid, obj): the first block whose
\* sub-implementation is supported and whose interface id equals _iid takes a
\* reference and returns the pointer; with no such block *obj is cleared.
queryInterface(proxy, _iid) ==
    LET hits == {i \in DOMAIN QueryOrder :
                    /\ supported(proxy, QueryOrder[i][1])
                    /\ iidEqual(_iid, QueryOrder[i][2])}
    IN  IF hits = {}
        THEN [result |-> kNoInterface, obj |-> nullptr, addRef |-> FALSE]
        ELSE [result |-> kResultOk, obj |-> QueryOrder[Min(hits)][3],
              addRef |-> TRUE]

\* The assignments of update_supported_interfaces in the order of the code;
\* the whole descriptor (arguments_) is assigned after them.
UpdateOrder ==
    << "YaAudioPresentationLatency", "YaAudioProcessor", "YaAutomationState",
       "YaComponent", "YaConnectionPoint", "YaEditController",
       "YaEditController2", "YaEditControllerHostEditing", "YaInfoListener",
       "YaKeyswitchController", "YaMidiLearn", "YaMidiMapping",
       "YaNoteExpressionController", "YaNoteExpressionPhysicalUIMapping",
       "YaParameterFunctionName", "YaPluginBase", "YaPrefetchableSupport",
       "YaProcessContextRequirements", "YaProgramListData", "YaUnitData",
       "YaUnitInfo", "YaXmlRepresentationController" >>

UpdateSteps == Len(UpdateOrder) + 1

\* An update that forgets the last sub-implementation.
update_step_SkipLast(proxy, updated_interfaces, i) ==
    IF i < Len(UpdateOrder)
    THEN [proxy EXCEPT !.bases[UpdateOrder[i]] =
                           updated_interfaces.supported[UpdateOrder[i]]]
    ELSE IF i = Len(UpdateOrder)
    THEN proxy
    ELSE [proxy EXCEPT !.arguments_ = updated_interfaces]

\* The i-th assignment of update_supported_interfaces.
update_step(proxy, updated_interfaces, i) ==
    IF i <= Len(UpdateOrder)
    THEN [proxy EXCEPT !.bases[UpdateOrder[i]] =
                           updated_interfaces.supported[UpdateOrder[i]]]
    ELSE [proxy EXCEPT !.arguments_ = updated_interfaces]

RECURSIVE update_steps(_, _, _)
update_steps(proxy, updated_interfaces, i) ==
    IF i = 0
    THEN proxy
    ELSE update_step(update_steps(proxy, updated_interfaces, i - 1),
                     updated_interfaces, i)

\* Vst3PluginProxy::update_supported_interfaces(updated_interfaces), run from
\* its first to its last assignment.
update_supported_interfaces(proxy, updated_interfaces) ==
    update_steps(proxy, updated_interfaces, UpdateSteps)

----------------------------------------------------------------------------
(* State *)

VARIABLES
    proxies,              \* plugin side: the proxy objects createInstance made
    pc,                   \* where the host's calling thread is
    frame,                \* the locals of the call that thread is blocked in
    request,              \* the request written to the control channel
    response,             \* the response written back
    object_instances,     \* Wine side: instance id -> the real object
    current_instance_id,  \* Wine side: the next instance id to hand out
    ret,                  \* what the last call returned, once it has
    destructs,            \* history: the instance ids of the Destructs sent
    acks,                 \* history: the instance ids whose Destruct was acked
    initialize_calls,     \* history: per proxy, the initialize() calls made
    replacements,         \* history: per proxy, the descriptor replacements
                          \* (both kept while the proxy exists)
    update,               \* the update_supported_interfaces call in progress
    observed,             \* history: what the queries made during it returned
    sockets,              \* per channel, the connections between the peers
    calls,                \* per thread, the call it is blocked in
    exchanges,            \* history: per thread, the sends it has made
    served,               \* history: per connection, the requests served
    audio_processor_sockets_,       \* per side, instance id -> fast channel
    audio_processor_sockets_mutex_, \* per side, the thread holding the mutex
    returned,             \* history: per thread, what its registry calls
                          \* returned
    component,            \* Wine side: a real IComponent
    arguments,            \* plugin side: YaComponent::arguments
    class_ids,            \* history: what getControllerClassId() returned
    probes,               \* history: what the real component answered when
                          \* its arguments were read
    serialized            \* history: the descriptors serialized, each with
                          \* the bytes written and the descriptor read back

\* The state of the proxies and of their lifecycle exchanges.
proxy_vars ==
    <<proxies, pc, frame, request, response, object_instances,
      current_instance_id, ret, destructs, acks, initialize_calls,
      replacements, update, observed>>

\* The state of the channels and of the channel registry.
channel_vars ==
    <<sockets, calls, exchanges, served, audio_processor_sockets_,
      audio_processor_sockets_mutex_, returned>>

\* The state of a component and of its YaComponent.
component_vars == <<component, arguments, class_ids, probes>>

\* The descriptors that went through a serialization buffer.
wire_vars == <<serialized>>

vars == <<proxy_vars, channel_vars, component_vars, wire_vars>>

\* No component has been constructed, and so no YaComponent either.
NoComponent == [constructed |-> FALSE]
NoArguments == [constructed |-> FALSE]

NoMessage == [type |-> "none"]
NoFrame == [h |-> 0, requested_interface |-> "none"]
NoReturn == [op |-> "none", h |-> 0, iid |-> "none", result |-> "none",
             obj |-> "none"]
NoUpdate == [h |-> 0, i |-> 0]

\* The status codes a failed instantiation is reported with.
FailureCodes == {kNoInterface, kResultFalse}

Handles == DOMAIN proxies
Alive(h) == h \in Handles /\ proxies[h].state = "alive"

\* The instance id a proxy holds (kept for the history once it is freed).
InstanceIdOf(p) ==
    IF p.state = "destroyed" THEN p.instance_id ELSE p.arguments_.instance_id

Count(seq, x) == Cardinality({i \in DOMAIN seq : seq[i] = x})

RECURSIVE SumTo(_, _)
SumTo(seq, n) == IF n = 0 THEN 0 ELSE seq[n] + SumTo(seq, n - 1)
Sum(seq) == SumTo(seq, Len(seq))

\* The references the host holds beyond the first one of each proxy.
ExtraRefs ==
    Sum([h \in DOMAIN proxies |->
            IF proxies[h].state = "alive" THEN proxies[h].refCount - 1
            ELSE 0])

----------------------------------------------------------------------------
(* Channels: Vst3MessageHandler and the sockets of Vst3Sockets *)

\* The two general channels of Vst3Sockets, and the dedicated channel of an
\* object instance. A channel is named by its socket file and instance id.
host_vst_control == <<"host_vst_control", 0>>
vst_host_callback == <<"vst_host_callback", 0>>
audio_processor(instance) == <<"host_vst_audio_processor", instance>>

GeneralChannels == {host_vst_control, vst_host_callback}
InstanceIds == 0 .. (MaxInstances - 1)
AudioProcessorChannels == {audio_processor(i) : i \in InstanceIds}
Channels == GeneralChannels \cup AudioProcessorChannels

\* The connections of a channel: 1 is the primary socket, the others are
\* the sockets opened on demand, one for every call that can be in progress
\* at once.
MaxConnections == MaxThreads + MaxCallbacks
Connections == 1 .. MaxConnections

\* The threads: those of the host calling into the plugin, and the thread
\* that serves a connection of a channel.
HostThreads == {<<"host", n, 0>> : n \in 1 .. MaxThreads}
ServeThread(ch, c) == <<ch[1], ch[2], c>>
ServeThreads == {ServeThread(ch, c) : ch \in Channels, c \in Connections}
Threads == HostThreads \cup ServeThreads
NoThread == <<"none", 0, 0>>

\* The requests of the ControlRequest, CallbackRequest and
\* AudioProcessorRequest variants, and T::Response for each request T.
ControlRequests == {"Construct", "Destruct"}
CallbackRequests == {"WantsConfiguration"}
AudioProcessorRequests == {"Process", "SetActive"}
Response ==
    [ Construct |-> "ConstructResponse", Destruct |-> "Ack",
      WantsConfiguration |-> "Configuration", Process |-> "ProcessResponse",
      SetActive |-> "UniversalTResult" ]
Requests(ch) ==
    IF ch = host_vst_control THEN ControlRequests
    ELSE IF ch = vst_host_callback THEN CallbackRequests
    ELSE AudioProcessorRequests

NoRequest == [kind |-> "none"]
NoResponse == [kind |-> "none"]
\* What a send ends with when its socket has been closed: the error asio
\* throws from the failed write or read.
Disconnect == [kind |-> "system_error"]

\* The logging argument: std::nullopt, or a logger and whether the channel
\* carries host -> plugin control messages. log_request is what the logger's
\* log_request() returns: whether it printed the request.
nullopt == [has_value |-> FALSE, is_host_vst |-> FALSE, log_request |-> FALSE]
Loggings(is_host_vst) ==
    {nullopt} \cup
    {[has_value |-> TRUE, is_host_vst |-> is_host_vst, log_request |-> b] :
        b \in BOOLEAN}
NoCall == [pc |-> "idle"]
NoChannel == <<"none", 0>>

\* A socket that is not connected.
ClosedSocket ==
    [ open |-> FALSE, shutdown |-> FALSE, serving |-> FALSE,
      logging |-> nullopt, sender |-> NoThread, to_server |-> << >>,
      handling |-> NoRequest, called_back |-> FALSE, to_client |-> << >> ]
\* A socket that has just been connected.
OpenSocket == [ClosedSocket EXCEPT !.open = TRUE]
\* A socket that close() has shut down and closed: what was on its way is
\* lost and every read or write on it fails from then on.
ShutdownSocket == [ClosedSocket EXCEPT !.shutdown = TRUE]

\* The two sides, each with its own Vst3Sockets object.
Sides == {"plugin", "wine"}

Init ==
    /\ proxies = << >>
    /\ pc = "idle"
    /\ frame = NoFrame
    /\ request = NoMessage
    /\ response = NoMessage
    /\ object_instances = [i \in {} |-> NoMessage]
    /\ current_instance_id = 0
    /\ ret = NoReturn
    /\ destructs = << >>
    /\ acks = {}
    /\ initialize_calls = << >>
    /\ replacements = << >>
    /\ update = NoUpdate
    /\ observed = << >>
    /\ sockets = [ch \in Channels |-> [c \in Connections |-> ClosedSocket]]
    /\ calls = [t \in Threads |-> NoCall]
    /\ exchanges = [t \in Threads |-> << >>]
    /\ served = [ch \in Channels |-> [c \in Connections |-> << >>]]
    /\ audio_processor_sockets_ = [s \in Sides |-> [i \in {} |-> NoChannel]]
    /\ audio_processor_sockets_mutex_ = [s \in Sides |-> NoThread]
    /\ returned = [t \in Threads |-> << >>]
    /\ component = NoComponent
    /\ arguments = NoArguments
    /\ class_ids = << >>
    /\ probes = << >>
    /\ serialized = << >>

----------------------------------------------------------------------------
(* Vst3PluginFactoryProxyImpl::createInstance *)

\* The arguments a host passes: a class id, an interface id (a null pointer,
\* a string shorter than a TUID, or 16 bytes) and the output pointer.
CidArgs == {nullptr, "cid"}
IidArgs ==
    {nullptr, "short", "IComponent", "IEditController", "IAudioProcessor",
     "FUnknown"}
ObjArgs == {nullptr, "obj"}
CreateArgs == CidArgs \X IidArgs \X ObjArgs

\* sizeof(Steinberg::TUID)
uid_size == 16

\* The bytes a non-null _iid points to: a short C string with its
\* terminator, or the 16 bytes of an interface id.
FIDString ==
    [_iid \in IidArgs \ {nullptr} |->
        CASE _iid = "short" -> << 105, 105, 100, 0 >>
          [] _iid = "IComponent" ->
                 << 232, 49, 255, 49, 242, 213, 67, 1,
                    146, 142, 187, 238, 37, 105, 120, 2 >>
          [] _iid = "IEditController" ->
                 << 220, 215, 187, 227, 119, 66, 68, 141,
                    168, 116, 170, 204, 151, 156, 117, 158 >>
          [] _iid = "IAudioProcessor" ->
                 << 66, 4, 63, 153, 183, 218, 69, 60,
                    165, 105, 231, 157, 154, 174, 195, 61 >>
          [] _iid = "FUnknown" ->
                 << 0, 0, 0, 0, 0, 0, 0, 0, 192, 0, 0, 0, 0, 0, 0, 70 >>]

\* strnlen(s, maxlen): the number of bytes before the first null byte, and
\* maxlen when there is none among the first maxlen bytes.
strnlen(s, maxlen) ==
    LET nulls == {i \in 1 .. maxlen : i <= Len(s) /\ s[i] = 0}
    IN  IF nulls = {} THEN maxlen
        ELSE (CHOOSE i \in nulls : \A j \in nulls : i <= j) - 1

\* A createInstance that accepts every interface id that is not a null
\* pointer.
createInstance_NoLengthCheck(cid, _iid, obj) ==
    /\ pc = "idle"
    /\ IF cid = nullptr \/ _iid = nullptr \/ obj = nullptr
       THEN /\ ret' = [op |-> "createInstance", h |-> 0, iid |-> _iid,
                       result |-> kInvalidArgument, obj |-> "unset"]
            /\ UNCHANGED <<pc, frame, request>>
       ELSE IF _iid \in {"IComponent", "IEditController"}
       THEN /\ request' = [type |-> "Construct", cid |-> cid,
                           requested_interface |-> _iid]
            /\ pc' = "createInstance"
            /\ frame' = [h |-> 0, requested_interface |-> _iid]
            /\ ret' = NoReturn
       ELSE /\ ret' = [op |-> "createInstance", h |-> 0, iid |-> _iid,
                       result |-> kNotImplemented, obj |-> nullptr]
            /\ UNCHANGED <<pc, frame, request>>
    /\ UNCHANGED <<proxies, response, object_instances, current_instance_id,
                   destructs, acks, initialize_calls, replacements>>
    /\ UNCHANGED <<update, observed>>
    /\ UNCHANGED <<channel_vars, component_vars, wire_vars>>

\* createInstance up to the point where it blocks in
\* send_mutually_recursive_message(Construct{cid, requested_interface}).
createInstance(cid, _iid, obj) ==
    /\ pc = "idle"
    /\ IF \/ cid = nullptr
          \/ _iid = nullptr
          \/ obj = nullptr
          \/ strnlen(FIDString[_iid], uid_size) < uid_size
       THEN /\ ret' = [op |-> "createInstance", h |-> 0, iid |-> _iid,
                       result |-> kInvalidArgument, obj |-> "unset"]
            /\ UNCHANGED <<pc, frame, request>>
       ELSE IF _iid \in {"IComponent", "IEditController"}
       THEN /\ request' = [type |-> "Construct", cid |-> cid,
                           requested_interface |-> _iid]
            /\ pc' = "createInstance"
            /\ frame' = [h |-> 0, requested_interface |-> _iid]
            /\ ret' = NoReturn
       ELSE /\ ret' = [op |-> "createInstance", h |-> 0, iid |-> _iid,
                       result |-> kNotImplemented, obj |-> nullptr]
            /\ UNCHANGED <<pc, frame, request>>
    /\ UNCHANGED <<proxies, response, object_instances, current_instance_id,
                   destructs, acks, initialize_calls, replacements>>
    /\ UNCHANGED <<update, observed>>
    /\ UNCHANGED <<channel_vars, component_vars, wire_vars>>

\* A createInstance that reports every failed instantiation as kResultFalse.
createInstance_visit_LosesCode ==
    /\ pc = "createInstance"
    /\ response.type \in {"ConstructArgs", "UniversalTResult"}
    /\ IF response.type = "ConstructArgs"
       THEN /\ proxies' = Append(proxies, Vst3PluginProxy(response.args))
            /\ initialize_calls' = Append(initialize_calls, 0)
            /\ replacements' = Append(replacements, 0)
            /\ ret' = [op |-> "createInstance", h |-> Len(proxies) + 1,
                       iid |-> frame.requested_interface,
                       result |-> kResultOk,
                       obj |-> frame.requested_interface]
       ELSE /\ ret' = [op |-> "createInstance", h |-> 0,
                       iid |-> frame.requested_interface,
                       result |-> kResultFalse, obj |-> "unset"]
            /\ UNCHANGED <<proxies, initialize_calls, replacements>>
    /\ pc' = "idle"
    /\ frame' = NoFrame
    /\ request' = NoMessage
    /\ response' = NoMessage
    /\ UNCHANGED <<object_instances, current_instance_id, destructs, acks>>
    /\ UNCHANGED <<update, observed>>
    /\ UNCHANGED <<channel_vars, component_vars, wire_vars>>

\* createInstance from the response on: std::visit over the variant.
createInstance_visit ==
    /\ pc = "createInstance"
    /\ response.type \in {"ConstructArgs", "UniversalTResult"}
    /\ IF response.type = "ConstructArgs"
       THEN /\ proxies' = Append(proxies, Vst3PluginProxy(response.args))
            /\ initialize_calls' = Append(initialize_calls, 0)
            /\ replacements' = Append(replacements, 0)
            /\ ret' = [op |-> "createInstance", h |-> Len(proxies) + 1,
                       iid |-> frame.requested_interface,
                       result |-> kResultOk,
                       obj |-> frame.requested_interface]
       ELSE /\ ret' = [op |-> "createInstance", h |-> 0,
                       iid |-> frame.requested_interface,
                       result |-> response.code, obj |-> "unset"]
            /\ UNCHANGED <<proxies, initialize_calls, replacements>>
    /\ pc' = "idle"
    /\ frame' = NoFrame
    /\ request' = NoMessage
    /\ response' = NoMessage
    /\ UNCHANGED <<object_instances, current_instance_id, destructs, acks>>
    /\ UNCHANGED <<update, observed>>
    /\ UNCHANGED <<channel_vars, component_vars, wire_vars>>

----------------------------------------------------------------------------
(* The Wine plugin host's handlers *)

\* Handling Construct: the real object is instantiated or the factory's
\* status code is returned; on success a fresh instance id is minted and the
\* object is probed. `objects` are the real objects the plugin may create,
\* `single` restricts the run to one pairing at a time.
HandleConstruct(objects, single) ==
    /\ request.type = "Construct"
    /\ response = NoMessage
    /\ \/ /\ \E code \in FailureCodes :
                response' = [type |-> "UniversalTResult", code |-> code]
          /\ UNCHANGED <<object_instances, current_instance_id>>
       \/ /\ current_instance_id < MaxInstances
          /\ single => DOMAIN object_instances = {}
          /\ \E object \in objects :
             \E args \in ConstructArgs(object.pre, current_instance_id) :
                /\ object_instances' =
                       [i \in DOMAIN object_instances
                               \cup {current_instance_id} |->
                           IF i = current_instance_id
                           THEN [object |-> object, initialized |-> FALSE]
                           ELSE object_instances[i]]
                /\ response' = [type |-> "ConstructArgs", args |-> args]
          /\ current_instance_id' = current_instance_id + 1
    /\ UNCHANGED <<proxies, pc, frame, request, ret, destructs, acks,
                   initialize_calls, replacements>>
    /\ UNCHANGED <<update, observed>>
    /\ UNCHANGED <<channel_vars, component_vars, wire_vars>>

\* A handler that queries the interfaces again under another instance id.
HandleInitialize_OtherInstance ==
    /\ request.type = "Initialize"
    /\ response = NoMessage
    /\ request.instance_id \in DOMAIN object_instances
    /\ \E result \in {kResultOk, kResultFalse} :
          LET old == object_instances[request.instance_id]
              new == [old EXCEPT !.initialized = @ \/ result = kResultOk]
          IN  /\ object_instances' =
                     [object_instances EXCEPT ![request.instance_id] = new]
              /\ \E args \in ConstructArgs(Answers(new),
                                           request.instance_id + 1) :
                    response' = [type |-> "InitializeResponse",
                                 result |-> result,
                                 updated_plugin_interfaces |-> args]
    /\ UNCHANGED <<proxies, pc, frame, request, current_instance_id, ret,
                   destructs, acks, initialize_calls, replacements>>
    /\ UNCHANGED <<update, observed>>
    /\ UNCHANGED <<channel_vars, component_vars, wire_vars>>

\* Handling Initialize: the real object's initialize() is called, then all
\* interfaces are queried again for the same instance id.
HandleInitialize ==
    /\ request.type = "Initialize"
    /\ response = NoMessage
    /\ request.instance_id \in DOMAIN object_instances
    /\ \E result \in {kResultOk, kResultFalse} :
          LET old == object_instances[request.instance_id]
              new == [old EXCEPT !.initialized = @ \/ result = kResultOk]
          IN  /\ object_instances' =
                     [object_instances EXCEPT ![request.instance_id] = new]
              /\ \E args \in ConstructArgs(Answers(new),
                                           request.instance_id) :
                    response' = [type |-> "InitializeResponse",
                                 result |-> result,
                                 updated_plugin_interfaces |-> args]
    /\ UNCHANGED <<proxies, pc, frame, request, current_instance_id, ret,
                   destructs, acks, initialize_calls, replacements>>
    /\ UNCHANGED <<update, observed>>
    /\ UNCHANGED <<channel_vars, component_vars, wire_vars>>

\* Handling Destruct: the instance is dropped and the request acknowledged.
HandleDestruct ==
    /\ request.type = "Destruct"
    /\ response = NoMessage
    /\ object_instances' =
           [i \in DOMAIN object_instances \ {request.instance_id} |->
               object_instances[i]]
    /\ response' = [type |-> "Ack"]
    /\ UNCHANGED <<proxies, pc, frame, request, current_instance_id, ret,
                   destructs, acks, initialize_calls, replacements>>
    /\ UNCHANGED <<update, observed>>
    /\ UNCHANGED <<channel_vars, component_vars, wire_vars>>

----------------------------------------------------------------------------
(* The host's calls on a proxy *)

\* IMPLEMENT_REFCOUNT: addRef()
addRef(h) ==
    /\ pc = "idle"
    /\ Alive(h)
    /\ ExtraRefs < MaxRefs
    /\ proxies' = [proxies EXCEPT ![h].refCount = @ + 1]
    /\ ret' = [op |-> "addRef", h |-> h, iid |-> "none",
               result |-> proxies[h].refCount + 1, obj |-> "none"]
    /\ UNCHANGED <<pc, frame, request, response, object_instances,
                   current_instance_id, destructs, acks, initialize_calls,
                   replacements>>
    /\ UNCHANGED <<update, observed>>
    /\ UNCHANGED <<channel_vars, component_vars, wire_vars>>

\* ~Vst3PluginProxyImpl up to the point where it blocks: Destruct{instance_id}
\* is sent on the control channel and the answer awaited.
Vst3PluginProxyImpl_destructor(h) ==
    /\ request' = [type |-> "Destruct",
                   instance_id |-> proxies[h].arguments_.instance_id]
    /\ destructs' = Append(destructs, proxies[h].arguments_.instance_id)
    /\ pc' = "release"
    /\ frame' = [h |-> h, requested_interface |-> "none"]
    /\ ret' = NoReturn

\* A release() that deletes the object whatever the count has become.
release_AlwaysDeletes(h) ==
    /\ pc = "idle"
    /\ Alive(h)
    /\ proxies' = [proxies EXCEPT ![h].refCount = @ - 1,
                                  ![h].state = "destructing"]
    /\ Vst3PluginProxyImpl_destructor(h)
    /\ UNCHANGED <<response, object_instances, current_instance_id, acks,
                   initialize_calls, replacements>>
    /\ UNCHANGED <<update, observed>>
    /\ UNCHANGED <<channel_vars, component_vars, wire_vars>>

\* IMPLEMENT_REFCOUNT: release() decrements the count and, when it has become
\* zero, deletes the object, which runs its destructor.
release(h) ==
    /\ pc = "idle"
    /\ Alive(h)
    /\ IF proxies[h].refCount - 1 = 0
       THEN /\ proxies' = [proxies EXCEPT ![h].refCount = @ - 1,
                                          ![h].state = "destructing"]
            /\ Vst3PluginProxyImpl_destructor(h)
       ELSE /\ proxies' = [proxies EXCEPT ![h].refCount = @ - 1]
            /\ ret' = [op |-> "release", h |-> h, iid |-> "none",
                       result |-> proxies[h].refCount - 1, obj |-> "none"]
            /\ UNCHANGED <<pc, frame, request, destructs>>
    /\ UNCHANGED <<response, object_instances, current_instance_id, acks,
                   initialize_calls, replacements>>
    /\ UNCHANGED <<update, observed>>
    /\ UNCHANGED <<channel_vars, component_vars, wire_vars>>

\* The rest of the destructor: the acknowledgement has arrived, the base
\* class destructor runs and the memory is freed.
release_destroyed ==
    /\ pc = "release"
    /\ response.type = "Ack"
    /\ proxies' =
           [proxies EXCEPT
               ![frame.h] = [state |-> "destroyed",
                             instance_id |-> InstanceIdOf(proxies[frame.h])]]
    /\ acks' = acks \cup {request.instance_id}
    /\ ret' = [op |-> "release", h |-> frame.h, iid |-> "none",
               result |-> 0, obj |-> "none"]
    /\ initialize_calls' = [initialize_calls EXCEPT ![frame.h] = 0]
    /\ replacements' = [replacements EXCEPT ![frame.h] = 0]
    /\ pc' = "idle"
    /\ frame' = NoFrame
    /\ request' = NoMessage
    /\ response' = NoMessage
    /\ UNCHANGED <<object_instances, current_instance_id, destructs>>
    /\ UNCHANGED <<update, observed>>
    /\ UNCHANGED <<channel_vars, component_vars, wire_vars>>

\* A capability query that clears the flag it looked at.
QueryInterface_Clears(h, _iid) ==
    /\ pc = "idle"
    /\ Alive(h)
    /\ proxies' = [proxies EXCEPT
                      ![h].bases = [c \in Caps |->
                                       IF InterfaceOf[c] = _iid
                                       THEN FALSE
                                       ELSE proxies[h].bases[c]]]
    /\ ret' = [op |-> "queryInterface", h |-> h, iid |-> _iid,
               result |-> queryInterface(proxies[h], _iid).result,
               obj |-> queryInterface(proxies[h], _iid).obj]
    /\ UNCHANGED <<pc, frame, request, response, object_instances,
                   current_instance_id, destructs, acks, initialize_calls,
                   replacements>>
    /\ UNCHANGED <<update, observed>>
    /\ UNCHANGED <<channel_vars, component_vars, wire_vars>>

\* A capability query that hands out the pointer without taking a
\* reference.
QueryInterface_NoAddRef(h, _iid) ==
    /\ pc = "idle"
    /\ Alive(h)
    /\ ret' = [op |-> "queryInterface", h |-> h, iid |-> _iid,
               result |-> queryInterface(proxies[h], _iid).result,
               obj |-> queryInterface(proxies[h], _iid).obj]
    /\ UNCHANGED <<proxies, pc, frame, request, response, object_instances,
                   current_instance_id, destructs, acks, initialize_calls,
                   replacements>>
    /\ UNCHANGED <<update, observed>>
    /\ UNCHANGED <<channel_vars, component_vars, wire_vars>>

\* A call of Vst3PluginProxy::queryInterface(_iid, obj) by the host.
QueryInterface(h, _iid) ==
    /\ pc = "idle"
    /\ Alive(h)
    /\ LET r == queryInterface(proxies[h], _iid)
       IN  /\ r.addRef => ExtraRefs < MaxRefs
           /\ proxies' = [proxies EXCEPT
                             ![h].refCount = IF r.addRef THEN @ + 1 ELSE @]
           /\ ret' = [op |-> "queryInterface", h |-> h, iid |-> _iid,
                      result |-> r.result, obj |-> r.obj]
    /\ UNCHANGED <<pc, frame, request, response, object_instances,
                   current_instance_id, destructs, acks, initialize_calls,
                   replacements>>
    /\ UNCHANGED <<update, observed>>
    /\ UNCHANGED <<channel_vars, component_vars, wire_vars>>

\* Vst3PluginProxy::instance_id()
instance_id(h) ==
    /\ pc = "idle"
    /\ Alive(h)
    /\ ret' = [op |-> "instance_id", h |-> h, iid |-> "none",
               result |-> proxies[h].arguments_.instance_id, obj |-> "none"]
    /\ UNCHANGED <<proxies, pc, frame, request, response, object_instances,
                   current_instance_id, destructs, acks, initialize_calls,
                   replacements>>
    /\ UNCHANGED <<update, observed>>
    /\ UNCHANGED <<channel_vars, component_vars, wire_vars>>

\* IPluginBase::initialize() on the proxy: the call is passed through with an
\* Initialize message carrying the proxy's instance id.
initialize(h) ==
    /\ pc = "idle"
    /\ Alive(h)
    /\ Sum(initialize_calls) < MaxInits
    /\ request' = [type |-> "Initialize",
                   instance_id |-> proxies[h].arguments_.instance_id]
    /\ initialize_calls' = [initialize_calls EXCEPT ![h] = @ + 1]
    /\ pc' = "initialize"
    /\ frame' = [h |-> h, requested_interface |-> "none"]
    /\ ret' = NoReturn
    /\ UNCHANGED <<proxies, response, object_instances, current_instance_id,
                   destructs, acks, replacements>>
    /\ UNCHANGED <<update, observed>>
    /\ UNCHANGED <<channel_vars, component_vars, wire_vars>>

\* An initialize() that replaces the supported interfaces only the first
\* time it is called on a proxy.
initialize_update_OnlyFirst ==
    /\ pc = "initialize"
    /\ response.type = "InitializeResponse"
    /\ IF replacements[frame.h] = 0
       THEN /\ proxies' =
                   [proxies EXCEPT
                       ![frame.h] = update_supported_interfaces(
                                        @, response.updated_plugin_interfaces)]
            /\ replacements' = [replacements EXCEPT ![frame.h] = @ + 1]
       ELSE UNCHANGED <<proxies, replacements>>
    /\ ret' = [op |-> "initialize", h |-> frame.h, iid |-> "none",
               result |-> response.result, obj |-> "none"]
    /\ pc' = "idle"
    /\ frame' = NoFrame
    /\ request' = NoMessage
    /\ response' = NoMessage
    /\ UNCHANGED <<object_instances, current_instance_id, destructs, acks,
                   initialize_calls>>
    /\ UNCHANGED <<update, observed>>
    /\ UNCHANGED <<channel_vars, component_vars, wire_vars>>

\* The rest of initialize(): the supported interfaces are replaced by the
\* ones of the InitializeResponse and the plugin's result is returned.
initialize_update ==
    /\ pc = "initialize"
    /\ response.type = "InitializeResponse"
    /\ proxies' =
           [proxies EXCEPT
               ![frame.h] = update_supported_interfaces(
                                @, response.updated_plugin_interfaces)]
    /\ replacements' = [replacements EXCEPT ![frame.h] = @ + 1]
    /\ ret' = [op |-> "initialize", h |-> frame.h, iid |-> "none",
               result |-> response.result, obj |-> "none"]
    /\ pc' = "idle"
    /\ frame' = NoFrame
    /\ request' = NoMessage
    /\ response' = NoMessage
    /\ UNCHANGED <<object_instances, current_instance_id, destructs, acks,
                   initialize_calls>>
    /\ UNCHANGED <<update, observed>>
    /\ UNCHANGED <<channel_vars, component_vars, wire_vars>>

----------------------------------------------------------------------------
(* Re-discovery while other threads query the proxy *)

\* The rest of initialize() up to the first assignment of
\* update_supported_interfaces, for the runs in which other threads of the
\* host keep using the proxy meanwhile.
initialize_update_begin ==
    /\ pc = "initialize"
    /\ response.type = "InitializeResponse"
    /\ pc' = "update"
    /\ update' = [h |-> frame.h, i |-> 1, old |-> proxies[frame.h]]
    /\ observed' = << >>
    /\ UNCHANGED <<proxies, frame, request, response, object_instances,
                   current_instance_id, ret, destructs, acks,
                   initialize_calls, replacements>>
    /\ UNCHANGED <<channel_vars, component_vars, wire_vars>>

\* One assignment of update_supported_interfaces; after the last one
\* initialize() returns the plugin's result.
update_assign ==
    /\ pc = "update"
    /\ proxies' =
           [proxies EXCEPT
               ![update.h] = update_step(@, response.updated_plugin_interfaces,
                                         update.i)]
    /\ IF update.i < UpdateSteps
       THEN /\ update' = [update EXCEPT !.i = @ + 1]
            /\ UNCHANGED <<pc, frame, request, response, ret, replacements,
                           observed>>
       ELSE /\ update' = NoUpdate
            /\ observed' = << >>
            /\ replacements' = [replacements EXCEPT ![update.h] = @ + 1]
            /\ ret' = [op |-> "initialize", h |-> update.h, iid |-> "none",
                       result |-> response.result, obj |-> "none"]
            /\ pc' = "idle"
            /\ frame' = NoFrame
            /\ request' = NoMessage
            /\ response' = NoMessage
    /\ UNCHANGED <<object_instances, current_instance_id, destructs, acks,
                   initialize_calls>>
    /\ UNCHANGED <<channel_vars, component_vars, wire_vars>>

\* queryInterface(_iid, obj) called by another thread of the host while
\* update_supported_interfaces runs. The call reads the one supported() flag
\* its interface id depends on, between two assignments of the update.
QueryInterface_concurrent(_iid) ==
    /\ pc = "update"
    /\ Len(observed) < MaxQueries
    /\ LET r == queryInterface(proxies[update.h], _iid)
       IN  /\ r.addRef => ExtraRefs < MaxRefs
           /\ proxies' = [proxies EXCEPT
                             ![update.h].refCount =
                                 IF r.addRef THEN @ + 1 ELSE @]
           /\ observed' = Append(observed, <<_iid, r.result>>)
    /\ UNCHANGED <<pc, frame, request, response, object_instances,
                   current_instance_id, ret, destructs, acks,
                   initialize_calls, replacements, update>>
    /\ UNCHANGED <<channel_vars, component_vars, wire_vars>>

----------------------------------------------------------------------------
(* Socket endpoints *)

\* File names and directories are written out character by character.
Digits == << "0", "1", "2", "3", "4", "5", "6", "7", "8", "9" >>

\* std::to_string(size_t): the decimal digits, most significant first.
RECURSIVE to_string(_)
to_string(n) ==
    IF n < 10 THEN << Digits[n + 1] >>
    ELSE to_string(n \div 10) \o << Digits[(n % 10) + 1] >>

\* The base directory both sides were started with (Sockets::base_dir_).
base_dir ==
    << "/", "t", "m", "p", "/", "y", "a", "b", "r", "i", "d", "g", "e",
       "-", "1" >>

\* ghc::filesystem::path::operator/: the file `name` in directory `dir`.
PathAppend(dir, name) == dir \o << "/" >> \o name

host_vst_control_sock ==
    << "h", "o", "s", "t", "_", "v", "s", "t", "_", "c", "o", "n", "t",
       "r", "o", "l", ".", "s", "o", "c", "k" >>
vst_host_callback_sock ==
    << "v", "s", "t", "_", "h", "o", "s", "t", "_", "c", "a", "l", "l",
       "b", "a", "c", "k", ".", "s", "o", "c", "k" >>
host_vst_audio_processor_ ==
    << "h", "o", "s", "t", "_", "v", "s", "t", "_", "a", "u", "d", "i",
       "o", "_", "p", "r", "o", "c", "e", "s", "s", "o", "r", "_" >>
dot_sock == << ".", "s", "o", "c", "k" >>

\* The endpoints of the two general channels (Vst3Sockets::Vst3Sockets).
GeneralEndpoints(dir) ==
    { PathAppend(dir, host_vst_control_sock),
      PathAppend(dir, vst_host_callback_sock) }

\* An endpoint that leaves the instance id out of the file name.
audio_processor_endpoint_NoId(dir, instance) ==
    PathAppend(dir, host_vst_audio_processor_ \o dot_sock)

\* The endpoint of an instance's dedicated channel:
\* base_dir_ / ("host_vst_audio_processor_" + std::to_string(instance_id)
\*              + ".sock")
audio_processor_endpoint(dir, instance) ==
    PathAppend(dir, host_vst_audio_processor_ \o to_string(instance)
                        \o dot_sock)

----------------------------------------------------------------------------
(* Vst3MessageHandler: sending a request and serving requests *)

\* Vst3Sockets::connect(): the primary sockets of the two general channels
\* get connected (one side accepts, the other connects).
connect ==
    /\ \A ch \in GeneralChannels :
           ~sockets[ch][1].open /\ ~sockets[ch][1].shutdown
    /\ sockets' =
           [ch \in Channels |->
               IF ch \in GeneralChannels
               THEN [sockets[ch] EXCEPT ![1] = OpenSocket]
               ELSE sockets[ch]]
    /\ UNCHANGED <<calls, exchanges, served, audio_processor_sockets_,
                   audio_processor_sockets_mutex_, returned>>
    /\ UNCHANGED <<proxy_vars, component_vars, wire_vars>>

\* Every socket but the primary one, connected or not.
FreeConnections_All(ch) == Connections \ {1}

\* The sockets of a channel that can be opened on demand.
FreeConnections(ch) == {c \in Connections \ {1} : ~sockets[ch][c].open}

\* A send that always uses the primary socket.
send_socket_AlwaysPrimary(ch) == 1

\* AdHocSocketHandler::send(): the socket the callback gets. The primary
\* socket when no other send is using it, else a socket opened for this send.
send_socket(ch) ==
    IF sockets[ch][1].sender = NoThread THEN 1 ELSE Min(FreeConnections(ch))

\* A write that leaves the socket free for the next send.
write_object_Unlocked(ch, c, t, message) ==
    LET socket == IF sockets[ch][c].open THEN sockets[ch][c] ELSE OpenSocket
    IN  [sockets EXCEPT
            ![ch][c] = [socket EXCEPT !.to_server = Append(@, message)]]

\* A write that is made again after the first one.
write_object_Again(ch, c, t, message) ==
    LET socket == IF sockets[ch][c].open THEN sockets[ch][c] ELSE OpenSocket
    IN  [sockets EXCEPT
            ![ch][c] = [socket EXCEPT !.sender = t,
                                      !.to_server = @ \o <<message, message>>]]

\* The sockets after write_object(socket, Request(object), buffer) by thread
\* t on connection c of channel ch, which this send holds from then on.
write_object(ch, c, t, message) ==
    LET socket == IF sockets[ch][c].open THEN sockets[ch][c] ELSE OpenSocket
    IN  [sockets EXCEPT
            ![ch][c] = [socket EXCEPT !.sender = t,
                                      !.to_server = Append(@, message)]]

\* The number of sends the threads of a set have made.
Sends(threads) ==
    Cardinality({<<t, i>> \in threads \X (1 .. (MaxSends + MaxCallbacks)) :
                    i <= Len(exchanges[t])})

\* A serialization buffer: the variable it is, the template instance and the
\* thread the variable belongs to, and for a local variable the call whose
\* stack frame holds it.
SerializationBuffer(name, T, thread, frame_) ==
    [name |-> name, T |-> T, thread |-> thread, frame |-> frame_]

\* SerializationBuffer<256> buffer{} of the receive_into() overload without
\* a buffer argument: a local of the call thread t is about to make.
buffer(t) ==
    SerializationBuffer("buffer", "", t, Len(exchanges[t]) + 1)

\* What the logger is called with: logger.log_request(is_host_vst, object)
\* and logger.log_response(!is_host_vst, response).
log_request(logging, object) ==
    [call |-> "log_request", is_host_vst |-> logging.is_host_vst,
     message |-> object]
log_response(logging, response_object) ==
    [call |-> "log_response", is_host_vst |-> ~logging.is_host_vst,
     message |-> response_object]

\* Vst3MessageHandler::receive_into() up to the point where it blocks in
\* read_object(): the logger, if there is one, is shown the request, and the
\* request is written to the socket send() hands out. The write fails when
\* the channel has been closed. A handler that sends has called the peer
\* back for the request it handles.
receive_into(t, ch, object, logging, buffer_) ==
    /\ calls[t].pc = "idle"
    /\ LET message == [object |-> object, from |-> t,
                       n |-> Len(exchanges[t]) + 1]
           logged == IF logging.has_value
                     THEN << log_request(logging, object) >> ELSE << >>
           should_log_response == logging.has_value /\ logging.log_request
       IN  IF sockets[ch][1].shutdown
           THEN /\ exchanges' =
                       [exchanges EXCEPT
                           ![t] = Append(@, [ch |-> ch, c |-> 1,
                                             request |-> message,
                                             response |-> Disconnect,
                                             logging |-> logging,
                                             buffer |-> buffer_,
                                             logged |-> logged])]
                /\ UNCHANGED <<sockets, calls>>
           ELSE /\ sockets[ch][1].open
                /\ sockets[ch][1].sender # NoThread
                       => FreeConnections(ch) # {}
                /\ LET c == send_socket(ch)
                   IN  /\ sockets' =
                              [write_object(ch, c, t, message) EXCEPT
                                  ![<<t[1], t[2]>>] =
                                      IF t \in ServeThreads
                                      THEN [@ EXCEPT
                                               ![t[3]].called_back = TRUE]
                                      ELSE @]
                       /\ calls' =
                              [calls EXCEPT
                                  ![t] = [pc |-> "receive_into", ch |-> ch,
                                          c |-> c, request |-> message,
                                          logging |-> logging,
                                          should_log_response |->
                                              should_log_response]]
                       /\ exchanges' =
                              [exchanges EXCEPT
                                  ![t] = Append(@, [ch |-> ch, c |-> c,
                                                    request |-> message,
                                                    response |-> NoResponse,
                                                    logging |-> logging,
                                                    buffer |-> buffer_,
                                                    logged |-> logged])]
    /\ UNCHANGED <<served, audio_processor_sockets_,
                   audio_processor_sockets_mutex_, returned>>
    /\ UNCHANGED <<proxy_vars, component_vars, wire_vars>>

\* send_message(object, logging) by a thread of the host, on the control
\* channel.
send_message(t, object, logging) ==
    /\ t \in HostThreads
    /\ Sends(HostThreads) < MaxSends
    /\ receive_into(t, host_vst_control, object, logging, buffer(t))

\* A receive_into() that passes the response to the logger whenever a
\* logger was supplied, whatever log_request() returned.
read_object_LogsUnfiltered(t, ch, c) ==
    /\ sockets[ch][c].open
    /\ sockets[ch][c].to_client # << >>
    /\ sockets' =
           [sockets EXCEPT
               ![ch][c] =
                   IF c = 1
                   THEN [@ EXCEPT !.sender = NoThread, !.to_client = Tail(@)]
                   ELSE ClosedSocket]
    /\ exchanges' =
           [exchanges EXCEPT
               ![t][Len(exchanges[t])] =
                   [@ EXCEPT
                       !.response = Head(sockets[ch][c].to_client),
                       !.logged =
                           IF calls[t].logging.has_value
                           THEN Append(@, log_response(
                                    calls[t].logging,
                                    Head(sockets[ch][c].to_client)))
                           ELSE @]]
    /\ calls' = [calls EXCEPT ![t] = NoCall]
    /\ UNCHANGED <<served, audio_processor_sockets_,
                   audio_processor_sockets_mutex_, returned>>
    /\ UNCHANGED <<proxy_vars, component_vars, wire_vars>>

\* read_object<TResponse>(socket, response_object, buffer) by thread t on
\* connection c of channel ch, and the end of the send: send() lets go of
\* the primary socket or drops the socket it had opened, the logger is shown
\* the response if it printed the request, and the response goes to the
\* caller. The read fails when the socket has been closed.
read_object(t, ch, c) ==
    /\ IF ~sockets[ch][c].open
       THEN /\ exchanges' =
                   [exchanges EXCEPT
                       ![t][Len(exchanges[t])].response = Disconnect]
            /\ UNCHANGED sockets
       ELSE /\ sockets[ch][c].to_client # << >>
            /\ sockets' =
                   [sockets EXCEPT
                       ![ch][c] =
                           IF c = 1
                           THEN [@ EXCEPT !.sender = NoThread,
                                          !.to_client = Tail(@)]
                           ELSE ClosedSocket]
            /\ exchanges' =
                   [exchanges EXCEPT
                       ![t][Len(exchanges[t])] =
                           [@ EXCEPT
                               !.response = Head(sockets[ch][c].to_client),
                               !.logged =
                                   IF calls[t].should_log_response
                                   THEN Append(@, log_response(
                                            calls[t].logging,
                                            Head(sockets[ch][c].to_client)))
                                   ELSE @]]
    /\ calls' = [calls EXCEPT ![t] = NoCall]
    /\ UNCHANGED <<served, audio_processor_sockets_,
                   audio_processor_sockets_mutex_, returned>>
    /\ UNCHANGED <<proxy_vars, component_vars, wire_vars>>

\* A receive_into() that reads its response from the primary socket
\* whichever socket the request went to.
receive_into_return_Primary(t) ==
    /\ calls[t].pc = "receive_into"
    /\ read_object(t, calls[t].ch, 1)

\* The rest of receive_into(): the response is read from the socket the
\* request was written to.
receive_into_return(t) ==
    /\ calls[t].pc = "receive_into"
    /\ read_object(t, calls[t].ch, calls[t].c)

\* receive_messages(logging, callback) on a general channel, by the side
\* that serves it: from now on the requests arriving on the primary socket,
\* and on the sockets accepted next to it, are read and handled.
receive_messages(ch, logging) ==
    /\ ch \in GeneralChannels
    /\ sockets[ch][1].open
    /\ ~sockets[ch][1].serving
    /\ sockets' = [sockets EXCEPT ![ch][1].serving = TRUE,
                                  ![ch][1].logging = logging]
    /\ UNCHANGED <<calls, exchanges, served, audio_processor_sockets_,
                   audio_processor_sockets_mutex_, returned>>
    /\ UNCHANGED <<proxy_vars, component_vars, wire_vars>>

\* What the handler passed to receive_messages() returns for a request: the
\* T::Response of the request's type T, made for that request.
callback(message) ==
    [kind |-> Response[message.object.kind], request |-> message]

\* thread_local SerializationBuffer<256> persistent_buffer of process_message.
persistent_buffer(t) == SerializationBuffer("persistent_buffer", "", t, 0)

\* The buffer read_object<Request>() reads the next request of connection c
\* of channel ch into: the persistent buffer when persistent_buffers is set
\* (the dedicated channels), else a buffer of its own for this request.
read_buffer(ch, c) ==
    IF ch \in AudioProcessorChannels
    THEN persistent_buffer(ServeThread(ch, c))
    ELSE SerializationBuffer("read_object", "", ServeThread(ch, c),
                             Len(served[ch][c]) + 1)

\* The buffer write_object() writes the response to that request from.
write_buffer(ch, c) ==
    IF ch \in AudioProcessorChannels
    THEN persistent_buffer(ServeThread(ch, c))
    ELSE SerializationBuffer("write_object", "", ServeThread(ch, c),
                             Len(served[ch][c]))

\* The logging argument of the receive_messages() call that serves a
\* channel: std::nullopt for the dedicated channels.
serve_logging(ch) ==
    IF ch \in AudioProcessorChannels THEN nullopt ELSE sockets[ch][1].logging

\* receive_messages(), process_message: read_object<Request>() has read a
\* request from the socket, the logger, if there is one, is shown it, and
\* std::visit calls the handler with it.
process_message_read(ch, c) ==
    /\ IF ch \in AudioProcessorChannels
       THEN calls[ServeThread(ch, 1)].pc = "receive_messages"
       ELSE sockets[ch][1].serving
    /\ sockets[ch][c].open
    /\ sockets[ch][c].handling = NoRequest
    /\ sockets[ch][c].to_server # << >>
    /\ sockets' = [sockets EXCEPT
                      ![ch][c].handling = Head(sockets[ch][c].to_server),
                      ![ch][c].to_server = Tail(@),
                      ![ch][c].called_back = FALSE]
    /\ LET logging == serve_logging(ch)
           message == Head(sockets[ch][c].to_server)
       IN  served' =
               [served EXCEPT
                   ![ch][c] =
                       Append(@, [request |-> message,
                                  callbacks |-> 1, responses |-> << >>,
                                  buffers |-> << read_buffer(ch, c) >>,
                                  should_log_response |->
                                      logging.has_value
                                          /\ logging.log_request,
                                  logged |->
                                      IF logging.has_value
                                      THEN << log_request(logging,
                                                          message.object) >>
                                      ELSE << >>])]
    /\ UNCHANGED <<calls, exchanges, audio_processor_sockets_,
                   audio_processor_sockets_mutex_, returned>>
    /\ UNCHANGED <<proxy_vars, component_vars, wire_vars>>

\* The channel a handler of a general channel calls the peer back on: the
\* general channel of the other direction.
Opposite(ch) ==
    IF ch = host_vst_control THEN vst_host_callback ELSE host_vst_control

\* The handler, while it handles a request of a general channel, sends a
\* request of its own to the peer and waits for the response.
process_message_callback(ch, c, object) ==
    /\ ch \in GeneralChannels
    /\ sockets[ch][c].open
    /\ sockets[ch][c].handling # NoRequest
    /\ ~sockets[ch][c].called_back
    /\ Sends(ServeThreads) < MaxCallbacks
    /\ receive_into(ServeThread(ch, c), Opposite(ch), object, nullopt,
                    buffer(ServeThread(ch, c)))

\* A process_message that writes the response only when the logger printed
\* the request.
write_response_IfLogged(ch, c, responses) ==
    /\ sockets[ch][c].open
    /\ sockets[ch][c].handling # NoRequest
    /\ calls[ServeThread(ch, c)].pc # "receive_into"
    /\ sockets' = [sockets EXCEPT
                      ![ch][c].handling = NoRequest,
                      ![ch][c].to_client =
                          IF served[ch][c][Len(served[ch][c])]
                                 .should_log_response
                          THEN @ \o responses ELSE @]
    /\ served' =
           [served EXCEPT
               ![ch][c][Len(served[ch][c])].responses =
                   IF served[ch][c][Len(served[ch][c])].should_log_response
                   THEN @ \o responses ELSE @]
    /\ UNCHANGED <<calls, exchanges, audio_processor_sockets_,
                   audio_processor_sockets_mutex_, returned>>
    /\ UNCHANGED <<proxy_vars, component_vars, wire_vars>>

\* The handler has returned: the logger is shown the response if it printed
\* the request, and write_object(socket, response) is done for each of
\* `responses` by the thread serving connection c of channel ch.
write_response(ch, c, responses) ==
    /\ sockets[ch][c].open
    /\ sockets[ch][c].handling # NoRequest
    /\ calls[ServeThread(ch, c)].pc # "receive_into"
    /\ sockets' = [sockets EXCEPT
                      ![ch][c].handling = NoRequest,
                      ![ch][c].to_client = @ \o responses]
    /\ served' =
           [served EXCEPT
               ![ch][c][Len(served[ch][c])] =
                   [@ EXCEPT
                       !.responses = @ \o responses,
                       !.buffers = Append(@, write_buffer(ch, c)),
                       !.logged =
                           IF served[ch][c][Len(served[ch][c])]
                                  .should_log_response
                           THEN Append(@, log_response(serve_logging(ch),
                                                       responses[1]))
                           ELSE @]]
    /\ UNCHANGED <<calls, exchanges, audio_processor_sockets_,
                   audio_processor_sockets_mutex_, returned>>
    /\ UNCHANGED <<proxy_vars, component_vars, wire_vars>>

\* A process_message that writes its response twice.
process_message_write_Twice(ch, c) ==
    write_response(ch, c, << callback(sockets[ch][c].handling),
                             callback(sockets[ch][c].handling) >>)

\* receive_messages(), process_message: the handler has returned and
\* write_object() writes its response to the socket the request came from.
process_message_write(ch, c) ==
    write_response(ch, c, << callback(sockets[ch][c].handling) >>)

----------------------------------------------------------------------------
(* Vst3Sockets: the registry of the instances' dedicated channels *)

\* The side a thread runs on: the host's threads are on the plugin side, the
\* threads serving control requests and dedicated channels on the Wine side.
SideOf(t) == IF t \in HostThreads THEN "plugin" ELSE "wine"

\* The thread of the Wine plugin host that handles the control requests, and
\* the thread it starts for the dedicated channel of an instance.
WineThread == ServeThread(host_vst_control, 1)
AudioThread(instance) == ServeThread(audio_processor(instance), 1)

\* The calls made on the registries so far, finished or not.
RegistryCalls ==
    Cardinality({<<t, i>> \in Threads \X (1 .. MaxRegistryCalls) :
                    /\ i <= Len(returned[t])
                    /\ returned[t][i].op # "receive_messages"})
        + Cardinality({t \in Threads :
                          calls[t].pc \notin {"idle", "receive_into"}})

\* A thread calls one of the functions that start by taking
\* audio_processor_sockets_mutex_.
registry_call(t, op, instance) ==
    /\ calls[t].pc = "idle"
    /\ RegistryCalls < MaxRegistryCalls
    /\ calls' = [calls EXCEPT
                    ![t] = [pc |-> "lock", op |-> op, instance_id |-> instance]]
    /\ UNCHANGED <<sockets, exchanges, served, audio_processor_sockets_,
                   audio_processor_sockets_mutex_, returned>>
    /\ UNCHANGED <<proxy_vars, component_vars, wire_vars>>

\* std::lock_guard lock(audio_processor_sockets_mutex_): the thread gets the
\* mutex of its side's registry once no other thread holds it.
lock(t) ==
    /\ calls[t].pc = "lock"
    /\ audio_processor_sockets_mutex_[SideOf(t)] = NoThread
    /\ audio_processor_sockets_mutex_' =
           [audio_processor_sockets_mutex_ EXCEPT ![SideOf(t)] = t]
    /\ calls' = [calls EXCEPT ![t].pc = "locked"]
    /\ UNCHANGED <<sockets, exchanges, served, audio_processor_sockets_,
                   returned>>
    /\ UNCHANGED <<proxy_vars, component_vars, wire_vars>>

\* An insertion that replaces the entry the key has (insert_or_assign).
try_emplace_Assigns(map, instance, value) ==
    [i \in DOMAIN map \cup {instance} |->
        IF i = instance THEN value ELSE map[i]]

\* unordered_map::try_emplace: a new entry unless the key has one already.
try_emplace(map, instance, value) ==
    IF instance \in DOMAIN map THEN map
    ELSE [i \in DOMAIN map \cup {instance} |->
             IF i = instance THEN value ELSE map[i]]

\* unordered_map::erase
erase(map, instance) == [i \in DOMAIN map \ {instance} |-> map[i]]

\* Vst3MessageHandler(io_context, endpoint, listen): a channel object that
\* is not connected yet. `wire` is the connection it gets connected to.
Vst3MessageHandler(endpoint, listen) ==
    [endpoint |-> endpoint, listen |-> listen, wire |-> NoChannel]

\* The instances whose channel on the Wine side listens on an endpoint.
Listening(endpoint) ==
    {j \in DOMAIN audio_processor_sockets_["wine"] :
        /\ audio_processor_sockets_["wine"][j].listen
        /\ audio_processor_sockets_["wine"][j].endpoint = endpoint}

\* The end of a call on the registry: the map and the sockets it leaves, and
\* what it returns (or throws) to thread t. The mutex is released if t holds
\* it.
registry_return(t, map, next_sockets, result) ==
    /\ audio_processor_sockets_' =
           [audio_processor_sockets_ EXCEPT ![SideOf(t)] = map]
    /\ sockets' = next_sockets
    /\ returned' =
           [returned EXCEPT
               ![t] = Append(@, [op |-> calls[t].op,
                                 instance_id |-> calls[t].instance_id,
                                 result |-> result])]
    /\ audio_processor_sockets_mutex_' =
           [audio_processor_sockets_mutex_ EXCEPT
               ![SideOf(t)] = IF @ = t THEN NoThread ELSE @]
    /\ calls' = [calls EXCEPT ![t] = NoCall]
    /\ UNCHANGED <<exchanges, served>>
    /\ UNCHANGED <<proxy_vars, component_vars, wire_vars>>

\* add_audio_processor_and_connect(instance_id), called on the plugin side.
add_audio_processor_and_connect(t, instance) ==
    /\ t \in HostThreads
    /\ registry_call(t, "add_audio_processor_and_connect", instance)

\* Its body, under the mutex: try_emplace() of a channel that does not
\* listen, then connect() on the channel the map holds for the id. connect()
\* throws when no socket listens on the endpoint, and when the channel is
\* connected already.
add_audio_processor_and_connect_locked(t) ==
    /\ calls[t].pc = "locked"
    /\ calls[t].op = "add_audio_processor_and_connect"
    /\ LET instance == calls[t].instance_id
           map == try_emplace(
                      audio_processor_sockets_[SideOf(t)], instance,
                      Vst3MessageHandler(
                          audio_processor_endpoint(base_dir, instance),
                          FALSE))
           listening == Listening(map[instance].endpoint)
           wire == audio_processor(Min(listening))
       IN  IF /\ map[instance].wire = NoChannel
              /\ listening # {}
              /\ ~sockets[wire][1].open
           THEN registry_return(
                    t, [map EXCEPT ![instance].wire = wire],
                    [sockets EXCEPT ![wire][1] = OpenSocket], "void")
           ELSE registry_return(t, map, sockets, "system_error")

\* add_audio_processor_and_listen(instance_id, latch, callback), called on
\* the Wine side by the thread started for the instance.
add_audio_processor_and_listen(instance) ==
    registry_call(AudioThread(instance), "add_audio_processor_and_listen",
                  instance)

\* A first block that leaves the map as it is.
add_audio_processor_and_listen_locked_NoEmplace(t) ==
    /\ calls[t].pc = "locked"
    /\ calls[t].op = "add_audio_processor_and_listen"
    /\ audio_processor_sockets_mutex_' =
           [audio_processor_sockets_mutex_ EXCEPT ![SideOf(t)] = NoThread]
    /\ calls' = [calls EXCEPT ![t].pc = "set_value"]
    /\ UNCHANGED <<sockets, exchanges, served, returned,
                   audio_processor_sockets_>>
    /\ UNCHANGED <<proxy_vars, component_vars, wire_vars>>

\* Its first block, under the mutex: try_emplace() of a channel that listens.
\* The mutex is released at the end of the block.
add_audio_processor_and_listen_locked(t) ==
    /\ calls[t].pc = "locked"
    /\ calls[t].op = "add_audio_processor_and_listen"
    /\ audio_processor_sockets_' =
           [audio_processor_sockets_ EXCEPT
               ![SideOf(t)] =
                   try_emplace(
                       @, calls[t].instance_id,
                       Vst3MessageHandler(
                           audio_processor_endpoint(base_dir,
                                                    calls[t].instance_id),
                           TRUE))]
    /\ audio_processor_sockets_mutex_' =
           [audio_processor_sockets_mutex_ EXCEPT ![SideOf(t)] = NoThread]
    /\ calls' = [calls EXCEPT ![t].pc = "set_value"]
    /\ UNCHANGED <<sockets, exchanges, served, returned>>
    /\ UNCHANGED <<proxy_vars, component_vars, wire_vars>>

\* socket_listening_latch.set_value(): whoever waits for the latch goes on.
add_audio_processor_and_listen_set_value(t) ==
    /\ calls[t].pc = "set_value"
    /\ calls' = [calls EXCEPT
                    ![t] = [pc |-> "connect", op |-> calls[t].op,
                            instance_id |-> calls[t].instance_id,
                            socket_listening_latch |-> TRUE]]
    /\ UNCHANGED <<sockets, exchanges, served, returned,
                   audio_processor_sockets_, audio_processor_sockets_mutex_>>
    /\ UNCHANGED <<proxy_vars, component_vars, wire_vars>>

\* Whether a lookup in the map by thread t, which does not hold the mutex,
\* runs while another thread of its side inserts into the map or erases
\* from it.
Racing(t) ==
    \E u \in Threads \ {t} :
        /\ SideOf(u) = SideOf(t)
        /\ calls[u].pc = "locked"
        /\ calls[u].op # "close"

\* The outcomes of audio_processor_sockets_.at(instance_id) by thread t: the
\* channel of the id, or std::out_of_range when the map has none. A lookup
\* that races with an insert or an erase is undefined: it may also miss the
\* channel, or not return at all.
at_outcomes(t, map, instance) ==
    (IF instance \in DOMAIN map THEN {"found"} ELSE {"out_of_range"})
        \cup (IF Racing(t) THEN {"out_of_range", "undefined"} ELSE {})

\* audio_processor_sockets_.at(instance_id).connect(): the channel accepts
\* the connection of the plugin side, and receive_messages<true>() starts.
\* at() throws when the id is no longer in the map.
add_audio_processor_and_listen_connect(t) ==
    /\ calls[t].pc = "connect"
    /\ LET instance == calls[t].instance_id
           map == audio_processor_sockets_[SideOf(t)]
       IN  \E outcome \in at_outcomes(t, map, instance) :
               IF outcome # "found"
               THEN registry_return(t, map, sockets, outcome)
               ELSE /\ sockets[audio_processor(instance)][1].open
                    /\ audio_processor_sockets_' =
                           [audio_processor_sockets_ EXCEPT
                               ![SideOf(t)][instance].wire =
                                   audio_processor(instance)]
                    /\ calls' = [calls EXCEPT ![t].pc = "receive_messages"]
                    /\ UNCHANGED <<sockets, exchanges, served, returned,
                                   audio_processor_sockets_mutex_>>
                    /\ UNCHANGED <<proxy_vars, component_vars, wire_vars>>

\* receive_messages<true>() returns once the socket has been closed, and
\* add_audio_processor_and_listen() with it.
add_audio_processor_and_listen_return(t) ==
    /\ calls[t].pc = "receive_messages"
    /\ calls[t].op = "add_audio_processor_and_listen"
    /\ ~sockets[audio_processor(calls[t].instance_id)][1].open
    /\ registry_return(t, audio_processor_sockets_[SideOf(t)], sockets,
                       "void")

\* remove_audio_processor(instance_id), called on the plugin side by the
\* thread that destroys the proxy and on the Wine side by the thread that
\* handles Destruct.
remove_audio_processor(t, instance) ==
    /\ t \in HostThreads \cup {WineThread}
    /\ registry_call(t, "remove_audio_processor", instance)

\* The sockets of channel ch after close() on one of its two channel
\* objects: the primary socket is shut down, and with it the sockets opened
\* on demand that are in use.
close_channel(next_sockets, ch) ==
    [next_sockets EXCEPT
        ![ch] = [c \in Connections |->
                    IF c = 1 \/ next_sockets[ch][c].open
                    THEN [ShutdownSocket EXCEPT
                             !.serving = next_sockets[ch][c].serving,
                             !.logging = next_sockets[ch][c].logging]
                    ELSE next_sockets[ch][c]]]

\* The sockets after Vst3MessageHandler::close() on a channel object of the
\* map.
close(handler) ==
    IF handler.wire = NoChannel THEN sockets
    ELSE close_channel(sockets, handler.wire)

\* The sockets after close() on every channel object of a map.
RECURSIVE close_all(_, _)
close_all(map, next_sockets) ==
    IF DOMAIN map = {} THEN next_sockets
    ELSE LET instance == Min(DOMAIN map)
             rest == [j \in DOMAIN map \ {instance} |-> map[j]]
         IN  close_all(rest,
                       IF map[instance].wire = NoChannel THEN next_sockets
                       ELSE close_channel(next_sockets, map[instance].wire))

\* Vst3Sockets::close(), called on the plugin side by a thread that is not
\* in a send: host_vst_control_.close() and vst_host_callback_.close(), and
\* then the mutex of the map is asked for.
Vst3Sockets_close(t) ==
    /\ t \in HostThreads
    /\ calls[t].pc = "idle"
    /\ RegistryCalls < MaxRegistryCalls
    /\ sockets' = close_channel(close_channel(sockets, host_vst_control),
                                vst_host_callback)
    /\ calls' = [calls EXCEPT
                    ![t] = [pc |-> "lock", op |-> "close", instance_id |-> 0]]
    /\ UNCHANGED <<exchanges, served, audio_processor_sockets_,
                   audio_processor_sockets_mutex_, returned>>
    /\ UNCHANGED <<proxy_vars, component_vars, wire_vars>>

\* A close() that leaves the channels of the map open.
Vst3Sockets_close_locked_GeneralOnly(t) ==
    /\ calls[t].pc = "locked"
    /\ calls[t].op = "close"
    /\ registry_return(t, audio_processor_sockets_[SideOf(t)], sockets,
                       "void")

\* The rest of close(), under the mutex: socket.close() for every channel of
\* the map. The map keeps its entries.
Vst3Sockets_close_locked(t) ==
    /\ calls[t].pc = "locked"
    /\ calls[t].op = "close"
    /\ registry_return(t, audio_processor_sockets_[SideOf(t)],
                       close_all(audio_processor_sockets_[SideOf(t)],
                                 sockets),
                       "void")

\* receive_messages() on a general channel returns once the channel has
\* been closed: the read of the next request fails and the loop ends.
receive_messages_return(ch) ==
    /\ ch \in GeneralChannels
    /\ sockets[ch][1].serving
    /\ sockets[ch][1].shutdown
    /\ calls[ServeThread(ch, 1)].pc = "idle"
    /\ sockets' = [sockets EXCEPT ![ch][1].serving = FALSE]
    /\ returned' =
           [returned EXCEPT
               ![ServeThread(ch, 1)] =
                   Append(@, [op |-> "receive_messages", instance_id |-> 0,
                              result |-> "void"])]
    /\ UNCHANGED <<calls, exchanges, served, audio_processor_sockets_,
                   audio_processor_sockets_mutex_>>
    /\ UNCHANGED <<proxy_vars, component_vars, wire_vars>>

\* A remove_audio_processor() that erases the channel without closing it.
remove_audio_processor_locked_EraseOnly(t) ==
    /\ calls[t].pc = "locked"
    /\ calls[t].op = "remove_audio_processor"
    /\ LET instance == calls[t].instance_id
           map == audio_processor_sockets_[SideOf(t)]
       IN  IF instance \in DOMAIN map
           THEN registry_return(t, erase(map, instance), sockets, "true")
           ELSE registry_return(t, map, sockets, "false")

\* Its body, under the mutex: when the map contains the id the channel is
\* closed and then erased, and the call returns true; else it returns false.
remove_audio_processor_locked(t) ==
    /\ calls[t].pc = "locked"
    /\ calls[t].op = "remove_audio_processor"
    /\ LET instance == calls[t].instance_id
           map == audio_processor_sockets_[SideOf(t)]
       IN  IF instance \in DOMAIN map
           THEN registry_return(t, erase(map, instance),
                                close(map[instance]), "true")
           ELSE registry_return(t, map, sockets, "false")

\* A lookup that takes the first channel of the map whatever the id.
at_First(map, instance) == map[Min(DOMAIN map)]

\* unordered_map::at
at(map, instance) == map[instance]

\* A buffer that is made anew for every call.
audio_processor_buffer_Fresh(t, T) ==
    SerializationBuffer("audio_processor_buffer", T, t, Len(exchanges[t]) + 1)

\* A buffer that all threads and all request types share.
audio_processor_buffer_Static(t, T) ==
    SerializationBuffer("audio_processor_buffer", "", NoThread, 0)

\* thread_local SerializationBuffer<256> audio_processor_buffer of
\* receive_audio_processor_message_into<T>(): a function template's local,
\* so one variable for each thread and each request type T.
audio_processor_buffer(t, T) ==
    SerializationBuffer("audio_processor_buffer", T, t, 0)

\* send_audio_processor_message(object, logging) ends with the exception
\* thrown by at() or by the write to a socket that never got connected.
send_audio_processor_message_throw(t, object, what) ==
    /\ calls[t].pc = "idle"
    /\ RegistryCalls < MaxRegistryCalls
    /\ returned' =
           [returned EXCEPT
               ![t] = Append(@, [op |-> "send_audio_processor_message",
                                 instance_id |-> object.instance_id,
                                 result |-> what])]
    /\ UNCHANGED <<sockets, calls, exchanges, served,
                   audio_processor_sockets_,
                   audio_processor_sockets_mutex_>>
    /\ UNCHANGED <<proxy_vars, component_vars, wire_vars>>

\* send_audio_processor_message(object, logging): the channel of
\* object.instance_id is looked up with at(), without the mutex, and the
\* request is sent on it with receive_into() and the thread's buffer for
\* this request type.
send_audio_processor_message(t, object, logging) ==
    /\ t \in HostThreads
    /\ LET map == audio_processor_sockets_[SideOf(t)]
       IN  \E outcome \in at_outcomes(t, map, object.instance_id) :
               IF outcome # "found"
               THEN send_audio_processor_message_throw(t, object, outcome)
               ELSE IF at(map, object.instance_id).wire = NoChannel
               THEN send_audio_processor_message_throw(t, object,
                                                       "system_error")
               ELSE /\ Sends(HostThreads) < MaxSends
                    /\ receive_into(t, at(map, object.instance_id).wire,
                                    object, logging,
                                    audio_processor_buffer(t, object.kind))

----------------------------------------------------------------------------
(* Specifications *)

\* The real objects of the runs with several pairings at once.
LifecycleObjects == {WavesObject}

\* The interface ids the host asks for in those runs.
LifecycleIids == {"IEditController", "IMessage"}

\* The createInstance arguments of those runs.
LifecycleCreateArgs ==
    { <<"cid", "IComponent", "obj">>, <<"cid", "IEditController", "obj">>,
      <<"cid", "IAudioProcessor", "obj">>, <<nullptr, "IComponent", "obj">> }

HostCalls(iids, args) ==
    \/ \E a \in args : createInstance(a[1], a[2], a[3])
    \/ createInstance_visit
    \/ \E h \in Handles : addRef(h)
    \/ \E h \in Handles : release(h)
    \/ release_destroyed
    \/ \E h \in Handles, _iid \in iids : QueryInterface(h, _iid)
    \/ \E h \in Handles : instance_id(h)
    \/ \E h \in Handles : initialize(h)

\* Several pairings alive at once, their calls serialized by the host.
Next ==
    \/ HostCalls(LifecycleIids, LifecycleCreateArgs)
    \/ initialize_update
    \/ HandleConstruct(LifecycleObjects, FALSE)
    \/ HandleInitialize
    \/ HandleDestruct

Spec == Init /\ [][Next]_vars

\* One pairing at a time, over every real object and every interface id.
ProxyNext ==
    \/ HostCalls(Iids, CreateArgs)
    \/ initialize_update
    \/ HandleConstruct(RealObjects, TRUE)
    \/ HandleInitialize
    \/ HandleDestruct

ProxySpec == Init /\ [][ProxyNext]_vars

\* The real objects and interface ids of the runs in which capability
\* queries overlap the re-discovery.
ConcurrentObjects == {WavesObject, ShrinkingObject}
ConcurrentIids == {"IAudioProcessor", "IComponent", "IEditController"}

\* One pairing at a time; while initialize() replaces the supported
\* interfaces, another thread of the host queries the proxy.
ConcurrentNext ==
    \/ HostCalls(ConcurrentIids, LifecycleCreateArgs)
    \/ initialize_update_begin
    \/ update_assign
    \/ \E _iid \in ConcurrentIids : QueryInterface_concurrent(_iid)
    \/ HandleConstruct(ConcurrentObjects, TRUE)
    \/ HandleInitialize
    \/ HandleDestruct

ConcurrentSpec == Init /\ [][ConcurrentNext]_vars

\* The requests the threads send on a channel.
Objects(ch) == {[kind |-> k] : k \in Requests(ch)}

\* The general channels: threads of the host send control requests, and
\* the handlers on either side call the other side back.
ChannelNext ==
    \/ connect
    \/ \E ch \in GeneralChannels : receive_messages(ch, nullopt)
    \/ \E t \in HostThreads, object \in Objects(host_vst_control) :
           send_message(t, object, nullopt)
    \/ \E t \in Threads : receive_into_return(t)
    \/ \E ch \in GeneralChannels, c \in Connections :
           process_message_read(ch, c)
    \/ \E ch \in GeneralChannels, c \in Connections :
           \E object \in Objects(Opposite(ch)) :
               process_message_callback(ch, c, object)
    \/ \E ch \in GeneralChannels, c \in Connections :
           process_message_write(ch, c)

ChannelSpec == Init /\ [][ChannelNext]_vars

\* The same, with every thread that can take a step taking one eventually:
\* each connection is served by a thread of its own, and a sender whose
\* response has arrived reads it.
ChannelFairness ==
    /\ WF_vars(\E ch \in GeneralChannels : receive_messages(ch, nullopt))
    /\ WF_vars(\E t \in Threads : receive_into_return(t))
    /\ WF_vars(\E ch \in GeneralChannels, c \in Connections :
                   process_message_read(ch, c))
    /\ WF_vars(\E ch \in GeneralChannels, c \in Connections :
                   process_message_write(ch, c))

FairChannelSpec == ChannelSpec /\ ChannelFairness

\* The requests of type T sent on the dedicated channels of the instances.
ObjectsOf(T) == {[kind |-> k, instance_id |-> i] : k \in T, i \in InstanceIds}

\* The requests sent on the dedicated channel of an instance.
AudioProcessorObjects == ObjectsOf({"Process"})

\* The registries of both sides: channels are added and removed on the
\* plugin side and on the Wine side.
RegistryNext ==
    \/ \E i \in InstanceIds : add_audio_processor_and_listen(i)
    \/ \E t \in HostThreads, i \in InstanceIds :
           add_audio_processor_and_connect(t, i)
    \/ \E t \in Threads, i \in InstanceIds : remove_audio_processor(t, i)
    \/ \E t \in Threads : lock(t)
    \/ \E t \in Threads : add_audio_processor_and_listen_locked(t)
    \/ \E t \in Threads : add_audio_processor_and_listen_set_value(t)
    \/ \E t \in Threads : add_audio_processor_and_listen_connect(t)
    \/ \E t \in Threads : add_audio_processor_and_listen_return(t)
    \/ \E t \in Threads : add_audio_processor_and_connect_locked(t)
    \/ \E t \in Threads : remove_audio_processor_locked(t)

RegistrySpec == Init /\ [][RegistryNext]_vars

\* The dedicated channels: instances get their channel on both sides and the
\* host's threads send requests on them.
AudioProcessorNext ==
    \/ \E i \in InstanceIds : add_audio_processor_and_listen(i)
    \/ \E t \in HostThreads, i \in InstanceIds :
           add_audio_processor_and_connect(t, i)
    \/ \E t \in Threads : lock(t)
    \/ \E t \in Threads : add_audio_processor_and_listen_locked(t)
    \/ \E t \in Threads : add_audio_processor_and_listen_set_value(t)
    \/ \E t \in Threads : add_audio_processor_and_listen_connect(t)
    \/ \E t \in Threads : add_audio_processor_and_connect_locked(t)
    \/ \E t \in HostThreads, object \in AudioProcessorObjects :
           send_audio_processor_message(t, object, nullopt)
    \/ \E t \in Threads : receive_into_return(t)
    \/ \E ch \in AudioProcessorChannels, c \in Connections :
           process_message_read(ch, c)
    \/ \E ch \in AudioProcessorChannels, c \in Connections :
           process_message_write(ch, c)

AudioProcessorSpec == Init /\ [][AudioProcessorNext]_vars

\* The calls of an operation of the registry that have returned a result.
Returned(op, result) ==
    {<<t, k>> \in Threads \X (1 .. MaxRegistryCalls + 2) :
        /\ k <= Len(returned[t])
        /\ returned[t][k].op = op
        /\ returned[t][k].result = result}

\* The plugin side has asked for a dedicated channel for an instance: ids
\* are handed out once, so it asks once for each.
Added(instance) ==
    \/ \E p \in Returned("add_audio_processor_and_connect", "void")
                  \cup Returned("add_audio_processor_and_connect",
                                "system_error") :
           returned[p[1]][p[2]].instance_id = instance
    \/ \E t \in HostThreads :
           /\ calls[t].pc \in {"lock", "locked"}
           /\ calls[t].op = "add_audio_processor_and_connect"
           /\ calls[t].instance_id = instance

\* The instance that is destroyed in the runs with removal.
RemoveInstance == 1

\* The dedicated channels with removal: the plugin side adds the channels of
\* the instances, sends on the channel of one of them, and removes that
\* channel when the instance is destroyed, while its threads go on sending.
RemoveNext ==
    \/ add_audio_processor_and_listen(RemoveInstance)
    \/ \E t \in HostThreads, i \in InstanceIds :
           ~Added(i) /\ add_audio_processor_and_connect(t, i)
    \/ \E t \in HostThreads : remove_audio_processor(t, RemoveInstance)
    \/ \E t \in Threads : lock(t)
    \/ \E t \in Threads : add_audio_processor_and_listen_locked(t)
    \/ \E t \in Threads : add_audio_processor_and_listen_set_value(t)
    \/ \E t \in Threads : add_audio_processor_and_listen_connect(t)
    \/ \E t \in Threads : add_audio_processor_and_listen_return(t)
    \/ \E t \in Threads : add_audio_processor_and_connect_locked(t)
    \/ \E t \in Threads : remove_audio_processor_locked(t)
    \/ \E t \in HostThreads :
           send_audio_processor_message(
               t, [kind |-> "Process", instance_id |-> RemoveInstance],
               nullopt)
    \/ \E t \in Threads : receive_into_return(t)
    \/ \E ch \in AudioProcessorChannels, c \in Connections :
           process_message_read(ch, c)
    \/ \E ch \in AudioProcessorChannels, c \in Connections :
           process_message_write(ch, c)

RemoveSpec == Init /\ [][RemoveNext]_vars

\* The instance whose dedicated channel carries requests of several types.
BufferInstance == 1

\* The dedicated channel of an instance, on which the host's threads send
\* requests of every type of the AudioProcessorRequest variant.
BufferNext ==
    \/ add_audio_processor_and_listen(BufferInstance)
    \/ \E t \in HostThreads :
           ~Added(BufferInstance)
               /\ add_audio_processor_and_connect(t, BufferInstance)
    \/ \E t \in Threads : lock(t)
    \/ \E t \in Threads : add_audio_processor_and_listen_locked(t)
    \/ \E t \in Threads : add_audio_processor_and_listen_set_value(t)
    \/ \E t \in Threads : add_audio_processor_and_listen_connect(t)
    \/ \E t \in Threads : add_audio_processor_and_connect_locked(t)
    \/ \E t \in HostThreads, T \in AudioProcessorRequests :
           send_audio_processor_message(
               t, [kind |-> T, instance_id |-> BufferInstance], nullopt)
    \/ \E t \in Threads : receive_into_return(t)
    \/ \E c \in Connections :
           process_message_read(audio_processor(BufferInstance), c)
    \/ \E c \in Connections :
           process_message_write(audio_processor(BufferInstance), c)

BufferSpec == Init /\ [][BufferNext]_vars

----------------------------------------------------------------------------
(* YaComponent: the edit controller class id *)

\* The class ids a component can name, and an empty std::optional.
ClassIds == {"cid_a", "cid_b"}
NoClassId == "nullopt"

\* What a real component's getControllerClassId(cid) does: kResultOk and a
\* class id written to cid, or another result and cid left as it was.
RealAnswers ==
    {[result |-> kResultOk, cid |-> c] : c \in ClassIds}
        \cup {[result |-> r, cid |-> "unset"] :
                 r \in {kResultFalse, kNotImplemented}}

\* The real components: what they answer before and after initialize().
Components == [before : RealAnswers, after : RealAnswers]

\* component->getControllerClassId(cid) on the real component.
real_getControllerClassId ==
    IF component.initialized THEN component.real.after
    ELSE component.real.before

\* Arguments that keep whatever the component left in cid.
Arguments_AlwaysStores(answer, instance) ==
    [constructed |-> TRUE, instance_id |-> instance,
     edit_controller_cid |-> answer.cid]

\* YaComponent::Arguments::Arguments(component, instance_id), given what
\* component->getControllerClassId(cid) did: edit_controller_cid is set when
\* it returned kResultOk.
Arguments(answer, instance) ==
    [constructed |-> TRUE, instance_id |-> instance,
     edit_controller_cid |->
         IF answer.result = kResultOk THEN answer.cid ELSE NoClassId]

\* A component is instantiated on the Wine side, its arguments are read and
\* sent over, and YaComponent::YaComponent(args) keeps them.
YaComponent(real, instance) ==
    /\ ~component.constructed
    /\ component' = [constructed |-> TRUE, real |-> real,
                     initialized |-> FALSE]
    /\ probes' = << real.before >>
    /\ arguments' = Arguments(real.before, instance)
    /\ UNCHANGED class_ids
    /\ UNCHANGED <<proxy_vars, channel_vars, wire_vars>>

\* YaComponent::getControllerClassId(classId): answered from the arguments.
getControllerClassId ==
    /\ arguments.constructed
    /\ Len(class_ids) < MaxQueries
    /\ class_ids' =
           Append(class_ids,
                  IF arguments.edit_controller_cid # NoClassId
                  THEN [result |-> kResultOk,
                        classId |-> arguments.edit_controller_cid,
                        discovery |-> Len(probes)]
                  ELSE [result |-> kNotImplemented, classId |-> "unset",
                        discovery |-> Len(probes)])
    /\ UNCHANGED <<component, arguments, probes>>
    /\ UNCHANGED <<proxy_vars, channel_vars, wire_vars>>

\* initialize() on the component: the real component is initialized, its
\* arguments are read again, and update_supported_interfaces() assigns them
\* to the YaComponent.
YaComponent_initialize ==
    /\ arguments.constructed
    /\ Len(probes) <= MaxInits
    /\ component' = [component EXCEPT !.initialized = TRUE]
    /\ probes' = Append(probes, component.real.after)
    /\ arguments' = Arguments(component.real.after, arguments.instance_id)
    /\ UNCHANGED class_ids
    /\ UNCHANGED <<proxy_vars, channel_vars, wire_vars>>

\* A component, its YaComponent and the calls of the host on it.
ComponentNext ==
    \/ \E real \in Components, instance \in InstanceIds :
           YaComponent(real, instance)
    \/ getControllerClassId
    \/ YaComponent_initialize

ComponentSpec == Init /\ [][ComponentNext]_vars

\* The control channel with and without a logger: each send and the serve
\* loop get std::nullopt, a logger that prints the request, or a logger
\* whose filter drops it.
LoggingNext ==
    \/ connect
    \/ \E logging \in Loggings(TRUE) :
           receive_messages(host_vst_control, logging)
    \/ \E t \in HostThreads, object \in Objects(host_vst_control) :
           \E logging \in Loggings(TRUE) : send_message(t, object, logging)
    \/ \E t \in Threads : receive_into_return(t)
    \/ \E c \in Connections : process_message_read(host_vst_control, c)
    \/ \E c \in Connections : process_message_write(host_vst_control, c)

LoggingSpec == Init /\ [][LoggingNext]_vars

\* The instance the runs with close() give a dedicated channel.
CloseInstance == 1

\* The bridge has been set up: both sides are connected and the instance
\* has its dedicated channel on the plugin side.
CloseReady == Returned("add_audio_processor_and_connect", "void") # {}

\* close() has been called.
Closing ==
    \/ Returned("close", "void") # {}
    \/ \E t \in HostThreads :
           calls[t].pc \in {"lock", "locked"} /\ calls[t].op = "close"

\* The plugin side closes its Vst3Sockets while threads send on the control
\* channel and on the dedicated channel of an instance, and while the
\* channels are served. The bridge is set up in the order the two sides set
\* it up in: the general channels are connected and served, the Wine side
\* listens for the instance, and the plugin side connects once the latch
\* has been set.
CloseNext ==
    \/ connect
    \/ \E ch \in GeneralChannels : receive_messages(ch, nullopt)
    \/ /\ \A ch \in GeneralChannels : sockets[ch][1].serving
       /\ returned[AudioThread(CloseInstance)] = << >>
       /\ add_audio_processor_and_listen(CloseInstance)
    \/ /\ calls[AudioThread(CloseInstance)].pc = "connect"
       /\ ~CloseReady
       /\ \E t \in HostThreads :
              add_audio_processor_and_connect(t, CloseInstance)
    \/ \E t \in Threads : lock(t)
    \/ \E t \in Threads : add_audio_processor_and_listen_locked(t)
    \/ \E t \in Threads : add_audio_processor_and_listen_set_value(t)
    \/ \E t \in Threads : add_audio_processor_and_listen_connect(t)
    \/ \E t \in Threads : add_audio_processor_and_listen_return(t)
    \/ \E t \in Threads : add_audio_processor_and_connect_locked(t)
    \/ /\ CloseReady
       /\ \E t \in HostThreads :
              send_message(t, [kind |-> "Construct"], nullopt)
    \/ /\ CloseReady
       /\ \E t \in HostThreads :
              send_audio_processor_message(
                  t, [kind |-> "Process", instance_id |-> CloseInstance],
                  nullopt)
    \/ \E t \in Threads : receive_into_return(t)
    \/ \E ch \in Channels, c \in Connections : process_message_read(ch, c)
    \/ \E ch \in Channels, c \in Connections : process_message_write(ch, c)
    \/ /\ CloseReady
       /\ ~Closing
       /\ \E t \in HostThreads : Vst3Sockets_close(t)
    \/ \E t \in HostThreads : Vst3Sockets_close_locked(t)
    \/ \E ch \in GeneralChannels : receive_messages_return(ch)

CloseSpec == Init /\ [][CloseNext]_vars

\* The same, with the steps that do not wait for the peer taken eventually:
\* a failed read returns, the mutex is handed on, the body of a call under
\* the mutex runs to its end, and a serve loop whose socket is closed ends.
CloseFairness ==
    /\ WF_vars(\E t \in Threads : receive_into_return(t))
    /\ WF_vars(\E t \in Threads : lock(t))
    /\ WF_vars(\E t \in Threads : add_audio_processor_and_listen_locked(t))
    /\ WF_vars(\E t \in Threads : add_audio_processor_and_connect_locked(t))
    /\ WF_vars(\E t \in Threads : add_audio_processor_and_listen_return(t))
    /\ WF_vars(\E t \in HostThreads : Vst3Sockets_close_locked(t))
    /\ WF_vars(\E ch \in GeneralChannels : receive_messages_return(ch))

FairCloseSpec == CloseSpec /\ CloseFairness

----------------------------------------------------------------------------
(* Serialization of the descriptor *)

\* The members ConstructArgs::serialize() passes to s.object(), in the order
\* of its statements.
SerializeOrder ==
    << "YaAudioPresentationLatency", "YaAudioProcessor", "YaAutomationState",
       "YaComponent", "YaConnectionPoint", "YaEditController",
       "YaEditController2", "YaEditControllerHostEditing", "YaInfoListener",
       "YaKeyswitchController", "YaMidiLearn", "YaMidiMapping",
       "YaNoteExpressionController", "YaNoteExpressionPhysicalUIMapping",
       "YaParameterFunctionName", "YaPluginBase", "YaPrefetchableSupport",
       "YaProcessContextRequirements", "YaProgramListData", "YaUnitData",
       "YaUnitInfo", "YaXmlRepresentationController" >>

\* The bytes of an unsigned integer, least significant first.
RECURSIVE ToBytes(_, _)
ToBytes(n, k) ==
    IF k = 0 THEN << >> ELSE << n % 256 >> \o ToBytes(n \div 256, k - 1)

\* The unsigned integer a sequence of bytes stands for.
RECURSIVE FromBytes(_)
FromBytes(bytes) ==
    IF bytes = << >> THEN 0 ELSE Head(bytes) + 256 * FromBytes(Tail(bytes))

\* s.value8b(instance_id) when writing: the eight bytes of the id.
value8b(n) == ToBytes(n, 8)

\* s.object(<member>_args) when writing: the member's own serialize() writes
\* its `supported` flag as one byte.
s_object(supported_) == << IF supported_ THEN 1 ELSE 0 >>

\* The concatenation of what s.object() writes for the members from the
\* i-th on.
RECURSIVE s_objects(_, _, _)
s_objects(args, order, i) ==
    IF i > Len(order) THEN << >>
    ELSE s_object(args.supported[order[i]])
             \o s_objects(args, order, i + 1)

\* A serialize() that writes the flags of two neighbouring members in the
\* other order.
serialize_SwapsMembers(args) ==
    value8b(args.instance_id)
        \o s_objects(args,
                   [i \in DOMAIN SerializeOrder |->
                       IF i = 4 THEN SerializeOrder[5]
                       ELSE IF i = 5 THEN SerializeOrder[4]
                       ELSE SerializeOrder[i]], 1)

\* ConstructArgs::serialize(s) with a serializer: the instance id, then each
\* member in order.
serialize(args) ==
    value8b(args.instance_id) \o s_objects(args, SerializeOrder, 1)

\* ConstructArgs::serialize(s) with a deserializer: the same statements read
\* the instance id from the first eight bytes and then one member after the
\* other from the bytes that follow.
deserialize(bytes) ==
    [instance_id |-> FromBytes(SubSeq(bytes, 1, 8)),
     supported |->
         [c \in Caps |->
             bytes[8 + CHOOSE i \in DOMAIN SerializeOrder :
                           SerializeOrder[i] = c] = 1]]

\* Instance ids around the byte boundaries of the encoding.
SerializedIds == {0, 1, 255, 256, 65535, 65536, 2147483647}

\* The descriptors the discovery side can produce for the objects probed.
SerializedArgs ==
    UNION {ConstructArgs(object, id) :
               object \in InterfaceSets \cup {WavesObject.pre, WavesObject.post,
                                              CatalogueIids, {}},
               id \in SerializedIds}

\* No descriptor has been read back yet.
NotRead == [instance_id |-> -1]

\* write_object(socket, response): the discovery side serializes a
\* descriptor into the buffer that goes over the socket.
write_ConstructArgs(args) ==
    /\ serialized = << >>
    /\ serialized' = Append(serialized,
                            [args |-> args, bytes |-> serialize(args),
                             read |-> NotRead])
    /\ UNCHANGED <<proxy_vars, channel_vars, component_vars>>

\* read_object<ConstructArgs>(socket): the plugin side deserializes the
\* bytes into the descriptor the proxy is constructed from.
read_ConstructArgs ==
    /\ serialized # << >>
    /\ serialized[Len(serialized)].read = NotRead
    /\ serialized' =
           [serialized EXCEPT
               ![Len(serialized)].read =
                   deserialize(serialized[Len(serialized)].bytes)]
    /\ UNCHANGED <<proxy_vars, channel_vars, component_vars>>

SerializeNext ==
    \/ \E args \in SerializedArgs : write_ConstructArgs(args)
    \/ read_ConstructArgs

SerializeSpec == Init /\ [][SerializeNext]_vars

\* The dedicated channels are added on both sides, some of them more than
\* once, and none is removed.
AddNext ==
    \/ \E i \in InstanceIds : add_audio_processor_and_listen(i)
    \/ \E t \in HostThreads, i \in InstanceIds :
           add_audio_processor_and_connect(t, i)
    \/ \E t \in Threads : lock(t)
    \/ \E t \in Threads : add_audio_processor_and_listen_locked(t)
    \/ \E t \in Threads : add_audio_processor_and_listen_set_value(t)
    \/ \E t \in Threads : add_audio_processor_and_listen_connect(t)
    \/ \E t \in Threads : add_audio_processor_and_connect_locked(t)

AddSpec == Init /\ [][AddNext]_vars

----------------------------------------------------------------------------
(* Claims *)

\* The sub-implementation of a catalogue interface.
CapOf(i) == CHOOSE c \in Caps : InterfaceOf[c] = i

\* What a capability query for interface i must return when the descriptor
\* flag of its capability is `present`.
AnswersAs(r, present) ==
    IF present
    THEN r.result = kResultOk /\ r.obj # nullptr
    ELSE r.result = kNoInterface /\ r.obj = nullptr

\* C1: for every proxy and every interface of the catalogue, queryInterface
\* returns kResultOk and a non-null pointer if and only if the proxy's
\* descriptor marks the capability present, and kNoInterface with a null
\* pointer otherwise. Checked on the call the host has just made and on
\* every proxy that exists.
C1_QueryAnswersExactlyDescriptor ==
    /\ (ret.op = "queryInterface" /\ ret.iid \in CatalogueIids) =>
           AnswersAs(ret,
                     proxies[ret.h].arguments_.supported[CapOf(ret.iid)])
    /\ \A h \in Handles :
           Alive(h) =>
               \A c \in Caps :
                   AnswersAs(queryInterface(proxies[h], InterfaceOf[c]),
                             proxies[h].arguments_.supported[c])

\* C1 witness: a query was answered kResultOk on a proxy whose descriptor
\* marks some other capability absent.
C1_Witness ==
    /\ ret.op = "queryInterface"
    /\ ret.iid \in CatalogueIids
    /\ ret.result = kResultOk
    /\ \E c \in Caps : ~proxies[ret.h].arguments_.supported[c]

\* C2: the descriptor the Wine plugin host builds by probing the object it
\* created marks a capability present if and only if the object answers the
\* capability query for that interface, for all 22 capabilities.
C2_DescriptorProbesEveryCapability ==
    response.type = "ConstructArgs" =>
        \A c \in Caps :
            response.args.supported[c] <=>
                (InterfaceOf[c] \in
                     Answers(object_instances[response.args.instance_id]))

\* C3: over a proxy's lifetime exactly one Destruct carrying its instance id
\* is sent: none while references remain, one when the last reference is
\* released, the teardown completes only after its acknowledgement, and no
\* Destruct is sent for anything but a proxy being torn down.
C3_ExactlyOneDestruct ==
    /\ \A h \in Handles :
        LET p == proxies[h]
            id == InstanceIdOf(p)
        IN  /\ p.state = "alive" =>
                   p.refCount >= 1 /\ Count(destructs, id) = 0
            /\ p.state = "destructing" =>
                   /\ p.refCount = 0
                   /\ Count(destructs, id) = 1
                   /\ id \notin acks
                   /\ pc = "release" /\ frame.h = h
                   /\ request = [type |-> "Destruct", instance_id |-> id]
            /\ p.state = "destroyed" =>
                   Count(destructs, id) = 1 /\ id \in acks
    /\ \A i \in DOMAIN destructs :
           \E h \in Handles :
               /\ InstanceIdOf(proxies[h]) = destructs[i]
               /\ proxies[h].state # "alive"

\* C3 witness: one proxy has been torn down after its Destruct was
\* acknowledged while another one is still referenced.
C3_Witness ==
    \E h1, h2 \in Handles :
        /\ proxies[h1].state = "destroyed"
        /\ proxies[h2].state = "alive"
        /\ destructs = <<InstanceIdOf(proxies[h1])>>

\* C4: when the Construct response holds a status code, createInstance
\* returns that code as its ordinary result and creates no proxy.
C4_FailureReturnsStatusOnly ==
    [][(pc = "createInstance" /\ response.type = "UniversalTResult"
            /\ pc' = "idle") =>
           /\ ret'.op = "createInstance"
           /\ ret'.result = response.code
           /\ ret'.h = 0
           /\ proxies' = proxies]_vars

\* C4 witness: createInstance has returned the status code of a failed
\* instantiation while no proxy exists.
C4_Witness ==
    /\ ret.op = "createInstance"
    /\ ret.result = kNoInterface
    /\ proxies = << >>

\* C5: when the Construct response holds a descriptor, createInstance
\* creates exactly one proxy, holding that descriptor and instance id, with
\* every sub-implementation configured from it and a reference count of one,
\* and returns kResultOk; no other step creates a proxy.
C5_SuccessCreatesOneProxy ==
    [][/\ (pc = "createInstance" /\ response.type = "ConstructArgs"
               /\ pc' = "idle") =>
              /\ Len(proxies') = Len(proxies) + 1
              /\ \A h \in Handles : proxies'[h] = proxies[h]
              /\ LET p == proxies'[Len(proxies')]
                 IN  /\ p.state = "alive"
                     /\ p.arguments_ = response.args
                     /\ \A c \in Caps :
                            p.bases[c] = response.args.supported[c]
                     /\ p.refCount = 1
              /\ ret'.op = "createInstance"
              /\ ret'.result = kResultOk
              /\ ret'.h = Len(proxies')
       /\ Len(proxies') # Len(proxies) =>
              (pc = "createInstance" /\ response.type = "ConstructArgs")
      ]_vars

\* C5 witness: createInstance has just returned kResultOk with a second
\* proxy, which holds one reference.
C5_Witness ==
    /\ ret.op = "createInstance"
    /\ ret.result = kResultOk
    /\ ret.h = 2
    /\ proxies[2].refCount = 1

\* The answer a capability query for interface id i gets from a proxy all of
\* whose sub-implementations are configured as `bases`.
AnswerOf(bases, i) ==
    queryInterface([bases |-> bases], i).result

\* C6: the capability queries other threads make while
\* update_supported_interfaces runs see the old descriptor up to some point
\* and the new one from then on: no query is answered from the new descriptor
\* before a later query is still answered from the old one.
C6_RediscoveryIsAtomic ==
    pc = "update" =>
        LET old == update.old.bases
            new == response.updated_plugin_interfaces.supported
        IN  ~ \E j, k \in DOMAIN observed :
                  /\ j < k
                  /\ observed[j][2] # AnswerOf(old, observed[j][1])
                  /\ observed[k][2] # AnswerOf(new, observed[k][1])

\* C7: when update_supported_interfaces(D') has returned, every one of the 22
\* sub-implementations is configured from its field of D', the proxy holds
\* D', and a capability query answers supported for exactly the capabilities
\* D' marks present.
C7_UpdateReplacesEverySubImplementation ==
    [][(pc = "initialize" /\ pc' = "idle") =>
           LET D == response.updated_plugin_interfaces
               p == proxies'[frame.h]
           IN  /\ \A c \in Caps : p.bases[c] = D.supported[c]
               /\ p.arguments_ = D
               /\ \A c \in Caps :
                      AnswersAs(queryInterface(p, InterfaceOf[c]),
                                D.supported[c])]_vars

\* C7 witness: initialize() has returned on the proxy of an object that
\* answered every interface before it was initialized and none afterwards,
\* and no probed sub-implementation is supported any more.
C7_Witness ==
    /\ ret.op = "initialize"
    /\ replacements[ret.h] = 1
    /\ LET p == proxies[ret.h]
           instance == object_instances[p.arguments_.instance_id]
       IN  /\ instance.object = ShrinkingObject
           /\ instance.initialized
           /\ \A c \in Caps \ {NoteExpressionPhysicalUIMapping} : ~p.bases[c]

\* C8: the descriptor of a proxy and the support flags of its
\* sub-implementations change only in the step in which initialize()
\* applies update_supported_interfaces to that proxy; every other step
\* (queries, reference counting, instance_id(), message sends and their
\* handling) leaves them as they are.
C8_OnlyRediscoveryChangesDescriptor ==
    [][\A h \in Handles :
           (proxies[h].state # "destroyed" /\ proxies'[h].state # "destroyed"
                /\ ~(pc = "initialize" /\ pc' = "idle" /\ frame.h = h)) =>
               /\ proxies'[h].bases = proxies[h].bases
               /\ proxies'[h].arguments_ = proxies[h].arguments_]_vars

\* C8 witness: a capability query has succeeded and taken a reference on a
\* proxy whose descriptor was never replaced.
C8_Witness ==
    /\ ret.op = "queryInterface"
    /\ ret.result = kResultOk
    /\ replacements[ret.h] = 0
    /\ proxies[ret.h].refCount = 2

C10_InstanceIdsAreUnique ==
    /\ \A h1, h2 \in Handles :
           h1 # h2 =>
               InstanceIdOf(proxies[h1]) # InstanceIdOf(proxies[h2])
    /\ response.type = "ConstructArgs" =>
           /\ \A h \in Handles :
                  InstanceIdOf(proxies[h]) # response.args.instance_id
           /\ response.args.instance_id \in DOMAIN object_instances
    /\ \A h \in Handles : InstanceIdOf(proxies[h]) < current_instance_id
    /\ \A i \in DOMAIN object_instances : i < current_instance_id

\* C10 witness: a Construct has succeeded while an earlier pairing is alive.
C10_Witness ==
    /\ response.type = "ConstructArgs"
    /\ \E h \in Handles : proxies[h].state = "alive"

\* The requests and responses on connection c of channel ch that have not
\* been read by the thread they are for, and the request being handled.
InFlight(ch, c) ==
    Len(sockets[ch][c].to_server) + Len(sockets[ch][c].to_client)
        + (IF sockets[ch][c].handling # NoRequest THEN 1 ELSE 0)

\* The threads blocked in a send on connection c of channel ch.
Users(ch, c) ==
    {t \in Threads : /\ calls[t].pc = "receive_into"
                     /\ calls[t].ch = ch
                     /\ calls[t].c = c}

\* C11: every connection of every channel carries at most one request in
\* flight, that of the one thread sending on it, and a response on its way
\* back answers that thread's request.
C11_OneRequestPerConnection ==
    \A ch \in Channels, c \in Connections :
        /\ InFlight(ch, c) <= 1
        /\ Cardinality(Users(ch, c)) <= 1
        /\ InFlight(ch, c) = 1 => Users(ch, c) = {sockets[ch][c].sender}
        /\ \A i \in DOMAIN sockets[ch][c].to_client :
               sockets[ch][c].to_client[i].request =
                   calls[sockets[ch][c].sender].request

\* A response is on its way back on a connection that has carried an
\* earlier exchange of the same thread.
C11_Witness ==
    \E t \in Threads :
        /\ calls[t].pc = "receive_into"
        /\ Len(exchanges[t]) >= 2
        /\ exchanges[t][1].ch = calls[t].ch
        /\ exchanges[t][1].c = calls[t].c
        /\ sockets[calls[t].ch][calls[t].c].to_client # << >>

\* C12: the i-th response a thread has received is the handler's response to
\* its i-th request: only the last send can be unanswered, and is only while
\* the thread is still blocked in it.
C12_ResponsesInSendOrder ==
    \A t \in Threads :
        \A i \in DOMAIN exchanges[t] :
            /\ (i < Len(exchanges[t]) \/ calls[t].pc = "idle")
                   => exchanges[t][i].response # NoResponse
            /\ exchanges[t][i].response # NoResponse
                   => exchanges[t][i].response =
                          callback(exchanges[t][i].request)

\* A thread has made two sends of different kinds on one connection and has
\* got both responses.
C12_Witness ==
    \E t \in HostThreads :
        /\ calls[t].pc = "idle"
        /\ Len(exchanges[t]) = 2
        /\ exchanges[t][1].c = exchanges[t][2].c
        /\ exchanges[t][1].request.object # exchanges[t][2].request.object
        /\ exchanges[t][2].response # NoResponse

\* C13: for every request read from a connection the handler was called
\* once, one response of the kind paired with the request's kind was written
\* to that connection, and it was written before the next request was read.
C13_EveryRequestServedOnce ==
    \A ch \in Channels, c \in Connections :
        /\ \A i \in DOMAIN served[ch][c] :
               LET e == served[ch][c][i]
               IN  /\ e.callbacks = 1
                   /\ Len(e.responses) <= 1
                   /\ i < Len(served[ch][c]) => Len(e.responses) = 1
                   /\ \A j \in DOMAIN e.responses :
                          /\ e.responses[j].kind =
                                 Response[e.request.object.kind]
                          /\ e.responses[j].request = e.request
        /\ sockets[ch][c].handling # NoRequest
               => /\ served[ch][c] # << >>
                  /\ served[ch][c][Len(served[ch][c])].request =
                         sockets[ch][c].handling
                  /\ served[ch][c][Len(served[ch][c])].responses = << >>
        /\ \A i \in DOMAIN sockets[ch][c].to_client :
               /\ served[ch][c] # << >>
               /\ served[ch][c][Len(served[ch][c])].responses =
                      << sockets[ch][c].to_client[i] >>

\* A connection has served two requests of different kinds.
C13_Witness ==
    \E ch \in Channels, c \in Connections :
        /\ Len(served[ch][c]) >= 2
        /\ served[ch][c][1].request.object.kind
               # served[ch][c][2].request.object.kind
        /\ Len(served[ch][c][2].responses) = 1

\* C14: a handler that sends while the primary socket of the channel it sends
\* on is in use gets a socket that was not connected before and leaves the
\* primary socket alone; and the sends of handlers return again and again,
\* that is, none stays blocked for ever.
C14_HandlerSendUsesNewConnection ==
    /\ [][\A t \in ServeThreads :
              ( /\ calls[t].pc = "idle"
                /\ calls'[t].pc = "receive_into"
                /\ sockets[calls'[t].ch][1].sender # NoThread )
              => /\ calls'[t].c # 1
                 /\ ~sockets[calls'[t].ch][calls'[t].c].open
                 /\ sockets'[calls'[t].ch][calls'[t].c].open
                 /\ sockets'[calls'[t].ch][calls'[t].c].sender = t
                 /\ sockets'[calls'[t].ch][1] = sockets[calls'[t].ch][1]]_vars
    /\ []<>(\A t \in ServeThreads : calls[t].pc = "idle")

\* A handler, called for a request of the peer, has sent a request of its own
\* on a socket opened for it and has got the response.
C14_Witness ==
    \E t \in ServeThreads :
        /\ calls[t].pc = "idle"
        /\ exchanges[t] # << >>
        /\ exchanges[t][1].c # 1
        /\ exchanges[t][1].response # NoResponse
        /\ sockets[<<t[1], t[2]>>][t[3]].handling # NoRequest

\* C15: two threads of the host sending on the control channel at the same
\* time are on different sockets, a thread that wants to send can (it does
\* not wait for the other's send to finish), and every response a thread
\* gets answers a request of that thread.
C15_ConcurrentSendsDoNotBlock ==
    /\ \A t1, t2 \in HostThreads :
           ( /\ t1 # t2
             /\ calls[t1].pc = "receive_into"
             /\ calls[t2].pc = "receive_into"
             /\ calls[t1].ch = calls[t2].ch )
           => calls[t1].c # calls[t2].c
    /\ \A t \in HostThreads :
           ( /\ calls[t].pc = "idle"
             /\ Sends(HostThreads) < MaxSends
             /\ sockets[host_vst_control][1].open )
           => ENABLED send_message(t, [kind |-> "Construct"], nullopt)
    /\ \A t \in HostThreads :
           \A i \in DOMAIN exchanges[t] :
               exchanges[t][i].response # NoResponse
                   => /\ exchanges[t][i].response.request.from = t
                      /\ exchanges[t][i].response.request.n = i

\* Two threads of the host are blocked in a send on the control channel, one
\* on the primary socket and one on a socket opened for it, and the response
\* of each has been written.
C15_Witness ==
    \E t1, t2 \in HostThreads :
        /\ calls[t1].pc = "receive_into"
        /\ calls[t2].pc = "receive_into"
        /\ calls[t1].ch = host_vst_control
        /\ calls[t2].ch = host_vst_control
        /\ calls[t1].c = 1
        /\ calls[t2].c # 1
        /\ sockets[host_vst_control][calls[t1].c].to_client # << >>
        /\ sockets[host_vst_control][calls[t2].c].to_client # << >>

\* C16: the dedicated channel of an instance never has a socket besides the
\* primary one.
C16_FastChannelHasOneConnection ==
    \A ch \in AudioProcessorChannels, c \in Connections \ {1} :
        ~sockets[ch][c].open

\* The messages on connection c of channel ch: the requests written and not
\* read yet, the request being handled, and the requests the responses on
\* their way back answer.
Messages(ch, c) ==
    {sockets[ch][c].to_server[i] : i \in DOMAIN sockets[ch][c].to_server}
        \cup {sockets[ch][c].to_client[i].request :
                 i \in DOMAIN sockets[ch][c].to_client}
        \cup (IF sockets[ch][c].handling # NoRequest
              THEN {sockets[ch][c].handling} ELSE {})

\* C17: every request on the dedicated channel of an instance, and every
\* request its handler has been called with, is a request for that instance;
\* and a thread can send to an instance whose channel is connected whatever
\* the calls in progress for the other instances.
C17_InstancesAreIsolated ==
    /\ \A i \in InstanceIds, c \in Connections :
           /\ \A m \in Messages(audio_processor(i), c) :
                  m.object.instance_id = i
           /\ \A k \in DOMAIN served[audio_processor(i)][c] :
                  served[audio_processor(i)][c][k].request.object.instance_id
                      = i
    /\ \A t \in HostThreads, i \in InstanceIds :
           ( /\ calls[t].pc = "idle"
             /\ Sends(HostThreads) < MaxSends
             /\ i \in DOMAIN audio_processor_sockets_["plugin"]
             /\ audio_processor_sockets_["plugin"][i].wire # NoChannel )
           => ENABLED send_audio_processor_message(
                          t, [kind |-> "Process", instance_id |-> i],
                          nullopt)
    /\ \A t \in HostThreads :
           \A k \in DOMAIN exchanges[t] :
               exchanges[t][k].response # NoResponse
                   => exchanges[t][k].response.request = exchanges[t][k].request

\* Calls for two instances are in progress at once, each being handled on
\* the channel of its instance.
C17_Witness ==
    \E i, j \in InstanceIds :
        /\ i # j
        /\ sockets[audio_processor(i)][1].handling # NoRequest
        /\ sockets[audio_processor(j)][1].handling # NoRequest

\* C18: remove_audio_processor(id) returns true exactly when the map held a
\* channel for id; the channel is then closed and erased; afterwards the map
\* has no channel for id, and the channels of the other ids are the same as
\* before, still connected if they were.
C18_RemoveClosesAndErases ==
    [][\A t \in Threads :
           ( /\ calls[t].pc = "locked"
             /\ calls[t].op = "remove_audio_processor"
             /\ calls'[t].pc = "idle" )
           => LET instance == calls[t].instance_id
                  before == audio_processor_sockets_[SideOf(t)]
                  after == audio_processor_sockets_'[SideOf(t)]
              IN  /\ returned'[t][Len(returned'[t])].result =
                         (IF instance \in DOMAIN before
                          THEN "true" ELSE "false")
                  /\ DOMAIN after = DOMAIN before \ {instance}
                  /\ \A j \in DOMAIN after : after[j] = before[j]
                  /\ ( /\ instance \in DOMAIN before
                       /\ before[instance].wire # NoChannel )
                         => ~sockets'[before[instance].wire][1].open
                  /\ \A ch \in Channels :
                         ( instance \in DOMAIN before
                               => ch # before[instance].wire )
                             => sockets'[ch] = sockets[ch]]_vars

\* A thread has removed a channel and got true, a remove of the same id has
\* returned false, and the serve loop of the instance has returned on the
\* other side because the connection was closed.
C18_Witness ==
    \E t1, t2 \in HostThreads :
        \E k1 \in DOMAIN returned[t1], k2 \in DOMAIN returned[t2] :
            /\ returned[t1][k1].op = "remove_audio_processor"
            /\ returned[t2][k2].op = "remove_audio_processor"
            /\ returned[t1][k1].instance_id = returned[t2][k2].instance_id
            /\ returned[t1][k1].result = "true"
            /\ returned[t2][k2].result = "false"
            /\ returned[AudioThread(returned[t1][k1].instance_id)] # << >>
            /\ returned[AudioThread(returned[t1][k1].instance_id)][1].result
                   = "void"

\* The directories the socket file names are compared in.
BaseDirs == { base_dir, base_dir \o << "2" >> }

\* C19: the channel of an id has the endpoint made from the base directory
\* and the id on both sides; the endpoints of different ids differ, and none
\* is the endpoint of a general channel.
C19_EndpointIsFunctionOfId ==
    /\ \A side \in Sides :
           \A i \in DOMAIN audio_processor_sockets_[side] :
               /\ audio_processor_sockets_[side][i].endpoint =
                      audio_processor_endpoint(base_dir, i)
               /\ \A j \in DOMAIN audio_processor_sockets_[side] :
                      i # j => audio_processor_sockets_[side][i].endpoint
                                 # audio_processor_sockets_[side][j].endpoint
               /\ i \in DOMAIN audio_processor_sockets_["wine"]
                      => audio_processor_sockets_[side][i].endpoint =
                             audio_processor_sockets_["wine"][i].endpoint
               /\ audio_processor_sockets_[side][i].wire
                      \in {NoChannel, audio_processor(i)}
    /\ \A dir \in BaseDirs :
           \A i \in 0 .. MaxEndpointId :
               /\ audio_processor_endpoint(dir, i) \notin GeneralEndpoints(dir)
               /\ \A j \in 0 .. MaxEndpointId :
                      i # j => audio_processor_endpoint(dir, i)
                                 # audio_processor_endpoint(dir, j)

\* Two ids have their channel on both sides, connected to each other.
C19_Witness ==
    \E i, j \in InstanceIds :
        /\ i # j
        /\ \A side \in Sides :
               /\ {i, j} \subseteq DOMAIN audio_processor_sockets_[side]
               /\ audio_processor_sockets_[side][i].wire = audio_processor(i)
               /\ audio_processor_sockets_[side][j].wire = audio_processor(j)

\* C20: a thread that waits for the mutex of a registry waits for a call on
\* the same instance id.
C20_DifferentIdsDoNotContend ==
    \A t \in Threads :
        ( /\ calls[t].pc = "lock"
          /\ audio_processor_sockets_mutex_[SideOf(t)] # NoThread )
        => calls[audio_processor_sockets_mutex_[SideOf(t)]].instance_id
               = calls[t].instance_id

\* The steps in which thread t reads or writes the map of its side: the
\* body of a call that has taken the mutex, the lookups of
\* add_audio_processor_and_listen() after its first block, and the lookup of
\* send_audio_processor_message().
MapAccess(t) ==
    \/ calls[t].pc = "locked" /\ calls'[t].pc # "locked"
    \/ calls[t].pc = "connect" /\ calls'[t].pc # "connect"
    \/ /\ calls[t].pc = "idle"
       /\ Len(exchanges'[t]) > Len(exchanges[t])
       /\ exchanges'[t][Len(exchanges'[t])].ch \in AudioProcessorChannels
    \/ /\ calls[t].pc = "idle"
       /\ Len(returned'[t]) > Len(returned[t])
       /\ returned'[t][Len(returned'[t])].op = "send_audio_processor_message"

\* C21: every step that reads or writes the map of instance channels is
\* taken by the thread that holds the mutex of that map.
C21_MapAccessHoldsTheMutex ==
    [][\A t \in Threads :
           MapAccess(t) => audio_processor_sockets_mutex_[SideOf(t)] = t]_vars

\* A thread is inside close().
InClose(t) == calls[t].pc \in {"lock", "locked"} /\ calls[t].op = "close"

\* Every primary socket of a set of channels has been shut down.
AllShutdown(chs) == \A ch \in chs : sockets[ch][1].shutdown

\* The channels the map of the plugin side holds a connection of.
MapChannels ==
    {audio_processor_sockets_["plugin"][i].wire :
        i \in DOMAIN audio_processor_sockets_["plugin"]} \ {NoChannel}

\* The last send of a thread.
LastExchange(t) == exchanges[t][Len(exchanges[t])]

\* C22: close() on the registry, called by a thread that is not blocked in a
\* send or a serve loop, closes both general channels at once and, by the
\* time it returns, every dedicated channel of the map; close() always
\* returns; and once it has, every thread blocked in a send gets the
\* disconnect error and every serve loop ends.
C22_CloseUnblocksEveryThread ==
    /\ [][\A t \in HostThreads :
              /\ (~InClose(t) /\ InClose(t)')
                     => AllShutdown(GeneralChannels)'
              /\ (InClose(t) /\ ~InClose(t)')
                     => AllShutdown(GeneralChannels \cup MapChannels)']_vars
    /\ \A t \in HostThreads :
           InClose(t) ~> (Returned("close", "void") # {})
    /\ \A t \in HostThreads :
           (Returned("close", "void") # {} /\ calls[t].pc = "receive_into")
               ~> ( /\ calls[t].pc = "idle"
                    /\ exchanges[t] # << >>
                    /\ LastExchange(t).response = Disconnect )
    /\ \A ch \in GeneralChannels :
           (Returned("close", "void") # {} /\ sockets[ch][1].serving)
               ~> ~sockets[ch][1].serving
    /\ (Returned("close", "void") # {}
            /\ calls[AudioThread(CloseInstance)].pc = "receive_messages")
           ~> (calls[AudioThread(CloseInstance)].pc = "idle")

\* close() has returned while a thread is still blocked in a send on the
\* dedicated channel and the serve loops of all channels are still running.
C22_Witness ==
    /\ Returned("close", "void") # {}
    /\ \E t \in HostThreads :
           /\ calls[t].pc = "receive_into"
           /\ calls[t].ch = audio_processor(CloseInstance)
    /\ \A ch \in GeneralChannels : sockets[ch][1].serving
    /\ calls[AudioThread(CloseInstance)].pc = "receive_messages"

\* How many times a request is on its way to, or has reached, a handler.
RECURSIVE Occurrences(_, _)
Occurrences(seq, message) ==
    IF seq = << >> THEN 0
    ELSE (IF Head(seq) = message THEN 1 ELSE 0)
             + Occurrences(Tail(seq), message)
\* The sum of the values of a function over a set of its arguments.
RECURSIVE SumOver(_, _)
SumOver(f, S) ==
    IF S = {} THEN 0
    ELSE LET x == CHOOSE y \in S : TRUE IN f[x] + SumOver(f, S \ {x})
\* The copies of a request that are waiting to be read by a serve loop.
Pending(message) ==
    SumOver([p \in Channels \X Connections |->
            Occurrences(sockets[p[1]][p[2]].to_server, message)],
        Channels \X Connections)
\* The times a handler has been called with a request.
HandlerRuns(message) ==
    SumOver([p \in Channels \X Connections |->
            Cardinality({k \in DOMAIN served[p[1]][p[2]] :
                            served[p[1]][p[2]][k].request = message})],
        Channels \X Connections)

\* C23: a send writes its request at most once, so the peer's handler runs
\* at most once for it; a send that has ended has ended with the response to
\* its own request or with the disconnect error; and a send that fails
\* because the connection is lost is not made again.
C23_SendIsNeverRetried ==
    \A t \in HostThreads :
        /\ calls[t].pc = "idle"
               => \A k \in DOMAIN exchanges[t] :
                      exchanges[t][k].response # NoResponse
        /\ \A k \in DOMAIN exchanges[t] :
               LET exchange == exchanges[t][k]
               IN  /\ exchange.request.n = k
                   /\ exchange.request.from = t
                   /\ Pending(exchange.request)
                          + HandlerRuns(exchange.request) <= 1
                   /\ exchange.response
                          \in {NoResponse, Disconnect,
                               callback(exchange.request)}
                   /\ exchange.response = Disconnect
                          => Pending(exchange.request) = 0

\* A send whose request reached the handler and whose read then failed
\* because the channel was closed: the handler has run once for it.
C23_Witness ==
    \E t \in HostThreads :
        \E k \in DOMAIN exchanges[t] :
            /\ exchanges[t][k].response = Disconnect
            /\ HandlerRuns(exchanges[t][k].request) = 1
            /\ calls[t].pc = "idle"

\* The sends that have ended.
Finished ==
    {p \in HostThreads \X (1 .. MaxSends) :
        /\ p[2] <= Len(exchanges[p[1]])
        /\ exchanges[p[1]][p[2]].response # NoResponse}

\* What the logger of a send has been shown, given what it was passed and
\* what its filter returned.
Observed(exchange) ==
    IF ~exchange.logging.has_value THEN << >>
    ELSE << log_request(exchange.logging, exchange.request.object) >>
             \o (IF exchange.logging.log_request
                     /\ exchange.response # NoResponse
                 THEN << log_response(exchange.logging, exchange.response) >>
                 ELSE << >>)

\* C24: the logger only observes. The request a send writes, the response it
\* returns, the handler being called once with that request and the response
\* the serve loop writes back are functions of the request alone: they are
\* the same with no logger, with a logger that prints the request and with
\* one whose filter drops it, on the sending and on the serving side. The
\* logger itself is shown the request, and the response if it printed the
\* request, and nothing else.
C24_LoggerOnlyObserves ==
    /\ \A t \in HostThreads :
           \A k \in DOMAIN exchanges[t] :
               LET exchange == exchanges[t][k]
               IN  /\ exchange.request.object \in Objects(host_vst_control)
                   /\ exchange.response
                          \in {NoResponse, callback(exchange.request)}
                   /\ Pending(exchange.request)
                          + HandlerRuns(exchange.request) = 1
                   /\ exchange.response # NoResponse
                          => HandlerRuns(exchange.request) = 1
                   /\ exchange.logged = Observed(exchange)
    /\ \A c \in Connections :
           \A i \in DOMAIN served[host_vst_control][c] :
               LET e == served[host_vst_control][c][i]
               IN  /\ e.callbacks = 1
                   /\ e.request \in {exchanges[t][k].request :
                                        <<t, k>> \in {p \in HostThreads
                                                        \X (1 .. MaxSends) :
                                            p[2] <= Len(exchanges[p[1]])}}
                   /\ ( i < Len(served[host_vst_control][c])
                        \/ sockets[host_vst_control][c].handling = NoRequest )
                          => e.responses = << callback(e.request) >>
    /\ \A p, q \in Finished :
           LET e1 == exchanges[p[1]][p[2]]
               e2 == exchanges[q[1]][q[2]]
           IN  e1.request.object = e2.request.object
                   => e1.response.kind = e2.response.kind

\* The same request has been sent once without a logger and once with a
\* logger that printed request and response, to a serve loop with a logger
\* whose filter dropped them, and both sends have returned.
C24_Witness ==
    /\ sockets[host_vst_control][1].logging.has_value
    /\ ~sockets[host_vst_control][1].logging.log_request
    /\ \E p, q \in Finished :
           LET e1 == exchanges[p[1]][p[2]]
               e2 == exchanges[q[1]][q[2]]
           IN  /\ e1.request.object = e2.request.object
               /\ ~e1.logging.has_value
               /\ e2.logging.has_value
               /\ Len(e2.logged) = 2

\* The uses of serialization buffers so far: the thread that wrote or read
\* through a buffer, and the buffer.
BufferUses ==
    {<<t, exchanges[t][k].buffer>> :
        <<t, k>> \in {p \in Threads \X (1 .. MaxSends + MaxCallbacks) :
                         p[2] <= Len(exchanges[p[1]])}}
    \cup
    UNION {{<<ServeThread(s[1], s[2]), served[s[1]][s[2]][s[3]].buffers[j]>> :
               j \in DOMAIN served[s[1]][s[2]][s[3]].buffers} :
           s \in {r \in Channels \X Connections
                          \X (1 .. MaxSends + MaxCallbacks) :
                     r[3] <= Len(served[r[1]][r[2]])}}

\* C25: no serialization buffer is used by two threads. A send on a general
\* channel uses a buffer of its own stack frame, so no two sends share one;
\* a send on a dedicated channel uses a thread-local buffer of the sending
\* thread, and a serve loop of a dedicated channel the thread-local buffer
\* of the serving thread.
C25_BuffersAreNotShared ==
    /\ \A u, v \in BufferUses : u[2] = v[2] => u[1] = v[1]
    /\ \A t, u \in Threads :
           \A k \in DOMAIN exchanges[t], l \in DOMAIN exchanges[u] :
               ( /\ exchanges[t][k].ch \in GeneralChannels
                 /\ exchanges[t][k].buffer = exchanges[u][l].buffer )
                   => (t = u /\ k = l)
    /\ \A t \in Threads :
           \A k \in DOMAIN exchanges[t] :
               exchanges[t][k].ch \in AudioProcessorChannels
                   => /\ exchanges[t][k].buffer.name = "audio_processor_buffer"
                      /\ exchanges[t][k].buffer.thread = t
    /\ \A ch \in AudioProcessorChannels, c \in Connections :
           \A i \in DOMAIN served[ch][c] :
               \A j \in DOMAIN served[ch][c][i].buffers :
                   served[ch][c][i].buffers[j]
                       = persistent_buffer(ServeThread(ch, c))

\* Two threads have each sent a request on the dedicated channel of the same
\* instance, and the serve loop of that channel has read a request and
\* written its response.
C25_Witness ==
    /\ \E t, u \in HostThreads :
           /\ t # u
           /\ \E k \in DOMAIN exchanges[t], l \in DOMAIN exchanges[u] :
                  /\ exchanges[t][k].ch \in AudioProcessorChannels
                  /\ exchanges[u][l].ch = exchanges[t][k].ch
    /\ \E ch \in AudioProcessorChannels, c \in Connections :
           \E i \in DOMAIN served[ch][c] : Len(served[ch][c][i].buffers) = 2

\* The instances whose dedicated channel the plugin side has removed.
Removed ==
    {returned[p[1]][p[2]].instance_id :
        p \in Returned("remove_audio_processor", "true")}

\* A send on the dedicated channel of an instance ends in this step: with an
\* exception before anything is written, or by writing its request.
Throws(t) ==
    /\ Len(returned'[t]) > Len(returned[t])
    /\ returned'[t][Len(returned'[t])].op = "send_audio_processor_message"
Writes(t) ==
    /\ Len(exchanges'[t]) > Len(exchanges[t])
    /\ exchanges'[t][Len(exchanges'[t])].ch \in AudioProcessorChannels

\* C26: once the dedicated channel of an instance has been removed, every
\* send_audio_processor_message() for that instance ends with the error of
\* the failed lookup, writes its request to no channel, and leaves the map
\* without a channel for the instance.
C26_SendAfterRemoveFails ==
    [][\A t \in HostThreads :
           /\ Writes(t)
                  => exchanges'[t][Len(exchanges'[t])].request.object
                         .instance_id \notin Removed
           /\ ( Throws(t)
                /\ returned'[t][Len(returned'[t])].instance_id \in Removed )
                  => /\ returned'[t][Len(returned'[t])].result
                            = "out_of_range"
                     /\ UNCHANGED <<sockets, audio_processor_sockets_>>
           /\ \A i \in Removed :
                  i \notin DOMAIN audio_processor_sockets_'["plugin"]]_vars

\* The same for the sends whose lookup does not run while another thread
\* inserts into the map or erases from it.
SendAfterRemoveFailsUnlessRacing ==
    [][\A t \in HostThreads :
           /\ Writes(t)
                  => exchanges'[t][Len(exchanges'[t])].request.object
                         .instance_id \notin Removed
           /\ ( Throws(t) /\ ~Racing(t)
                /\ returned'[t][Len(returned'[t])].instance_id \in Removed )
                  => /\ returned'[t][Len(returned'[t])].result
                            = "out_of_range"
                     /\ UNCHANGED <<sockets, audio_processor_sockets_>>
           /\ \A i \in Removed :
                  i \notin DOMAIN audio_processor_sockets_'["plugin"]]_vars

\* A send on the channel of the instance returned its response, the channel
\* was removed, and a later send for the instance ended with out_of_range.
SentRemovedAndFailed ==
    \E t \in HostThreads :
        /\ RemoveInstance \in Removed
        /\ \E k \in DOMAIN exchanges[t] :
               exchanges[t][k].response \notin {NoResponse, Disconnect}
        /\ \E u \in HostThreads :
               \E k \in DOMAIN returned[u] :
                   /\ returned[u][k].op = "send_audio_processor_message"
                   /\ returned[u][k].result = "out_of_range"

\* The serve loop of a dedicated channel reads and writes through the one
\* thread-local buffer of the thread that runs it.
ServeLoopReusesBuffer ==
    \A ch \in AudioProcessorChannels, c \in Connections :
        \A i \in DOMAIN served[ch][c] :
            \A j \in DOMAIN served[ch][c][i].buffers :
                served[ch][c][i].buffers[j]
                    = served[ch][c][1].buffers[1]

\* C27 as stated: all sends of a thread on dedicated channels use one and
\* the same buffer, and so do all reads and writes of a serve loop.
C27_OneBufferPerThread ==
    /\ \A t \in HostThreads :
           \A k, l \in DOMAIN exchanges[t] :
               exchanges[t][k].buffer = exchanges[t][l].buffer
    /\ ServeLoopReusesBuffer

\* C27: on the dedicated channels a thread reuses one thread-local buffer for
\* each type of request: every send of a thread after its first of that type
\* uses the same buffer, never a new one, and sends of different types use
\* different buffers. The serve loop of a dedicated channel reads and writes
\* through one thread-local buffer.
C27_OneBufferPerThreadAndType ==
    /\ \A t \in HostThreads :
           \A k, l \in DOMAIN exchanges[t] :
               (exchanges[t][k].buffer = exchanges[t][l].buffer)
                   <=> (exchanges[t][k].request.object.kind
                            = exchanges[t][l].request.object.kind)
    /\ ServeLoopReusesBuffer

\* A thread has sent two requests of the same type on the dedicated channel,
\* and the serve loop has answered both.
C27_Witness ==
    /\ \E t \in HostThreads :
           /\ Len(exchanges[t]) = 2
           /\ exchanges[t][1].request.object.kind
                  = exchanges[t][2].request.object.kind
           /\ exchanges[t][2].response # NoResponse
    /\ \E c \in Connections :
           /\ Len(served[audio_processor(BufferInstance)][c]) = 2
           /\ Len(served[audio_processor(BufferInstance)][c][2].buffers) = 2

\* assert(arguments_.instance_id == updated_interfaces.instance_id), for the
\* update_supported_interfaces() call initialize() is about to make.
UpdateAssertion ==
    (pc = "initialize" /\ response.type = "InitializeResponse")
        => proxies[frame.h].arguments_.instance_id
               = response.updated_plugin_interfaces.instance_id

\* C28: the instance id of a proxy never changes. The assertion of
\* update_supported_interfaces() holds whenever it is called, no step
\* changes the instance id a proxy holds, and instance_id() returns it.
C28_InstanceIdNeverChanges ==
    [][/\ UpdateAssertion
       /\ \A h \in Handles :
              InstanceIdOf(proxies'[h]) = InstanceIdOf(proxies[h])
       /\ ret'.op = "instance_id"
              => ret'.result = InstanceIdOf(proxies'[ret'.h])]_vars

\* instance_id() has been called on a proxy whose supported interfaces were
\* replaced by initialize() before, while another proxy is alive.
C28_Witness ==
    /\ ret.op = "instance_id"
    /\ Alive(ret.h)
    /\ replacements[ret.h] >= 1
    /\ \E h \in Handles : h # ret.h /\ Alive(h)

\* What the proxy answers from arguments captured from a probe.
AnswerFrom(probe) ==
    IF probe.result = kResultOk
    THEN [result |-> kResultOk, classId |-> probe.cid]
    ELSE [result |-> kNotImplemented, classId |-> "unset"]

\* An answer of the proxy without the note of when it was given.
ClassIdAnswer(a) == [result |-> a.result, classId |-> a.classId]

LatchSet(instance) ==
    /\ calls[AudioThread(instance)].pc \in {"connect", "receive_messages"}
    /\ calls[AudioThread(instance)].op = "add_audio_processor_and_listen"
    /\ calls[AudioThread(instance)].socket_listening_latch

\* A thread returns from add_audio_processor_and_connect() in this step.
ConnectReturns(t) ==
    /\ Len(returned'[t]) > Len(returned[t])
    /\ returned'[t][Len(returned'[t])].op = "add_audio_processor_and_connect"

\* C30: in add_audio_processor_and_listen() the latch is set only after the
\* channel of the instance has been put into the map listening on the
\* instance's endpoint, and before the call accepts a connection; so while
\* the latch is set the endpoint is listened on, and the first connect to
\* it made once the latch is set succeeds.
C30_LatchMeansListening ==
    /\ [](\A i \in InstanceIds :
              LatchSet(i)
                  => /\ i \in DOMAIN audio_processor_sockets_["wine"]
                     /\ audio_processor_sockets_["wine"][i].listen
                     /\ i \in Listening(audio_processor_endpoint(base_dir,
                                                                 i)))
    /\ [][\A i \in InstanceIds :
              /\ (~LatchSet(i) /\ LatchSet(i)')
                     => /\ calls[AudioThread(i)].pc = "set_value"
                        /\ calls'[AudioThread(i)].pc = "connect"
                        /\ audio_processor_sockets_["wine"][i].wire
                               = NoChannel
              /\ \A t \in HostThreads :
                     ( /\ ConnectReturns(t)
                       /\ returned'[t][Len(returned'[t])].instance_id = i
                       /\ LatchSet(i)
                       /\ ~sockets[audio_processor(i)][1].open )
                         => returned'[t][Len(returned'[t])].result
                                = "void"]_vars

\* The plugin side has connected to the endpoint of an instance after the
\* latch was set and before the Wine side accepts the connection.
C30_Witness ==
    \E i \in InstanceIds :
        /\ LatchSet(i)
        /\ calls[AudioThread(i)].pc = "connect"
        /\ \E p \in Returned("add_audio_processor_and_connect", "void") :
               returned[p[1]][p[2]].instance_id = i

\* The positions at which a logger was passed a response, among what it has
\* been shown during one exchange.
LoggedResponses(logged) ==
    {i \in DOMAIN logged : logged[i].call = "log_response"}

\* A std::optional logging argument holds a logger whose log_request()
\* returned true for the request.
Accepted(logging) == logging.has_value /\ logging.log_request

\* C31: a response is passed to the logger if and only if a logger was
\* supplied and its log_request() returned true for the request of the same
\* exchange. On the sending side (receive_into) this holds of every send
\* that has read its response, and nothing is passed before the response is
\* read; on the serving side (receive_messages) it holds of every request
\* whose handler has returned. The response passed is the one of that
\* exchange, and it is passed at most once on each side.
C31_ResponseLoggedIffRequestAccepted ==
    /\ \A t \in HostThreads :
           \A k \in DOMAIN exchanges[t] :
               LET e == exchanges[t][k]
                   L == LoggedResponses(e.logged)
               IN  /\ Cardinality(L) <= 1
                   /\ e.response \in {NoResponse, Disconnect} => L = {}
                   /\ e.response \notin {NoResponse, Disconnect}
                          => /\ (L # {}) <=> Accepted(e.logging)
                             /\ \A i \in L :
                                    e.logged[i]
                                        = log_response(e.logging, e.response)
    /\ \A c \in Connections :
           \A i \in DOMAIN served[host_vst_control][c] :
               LET e == served[host_vst_control][c][i]
                   L == LoggedResponses(e.logged)
                   logging == sockets[host_vst_control][1].logging
               IN  /\ Cardinality(L) <= 1
                   /\ e.responses = << >> => L = {}
                   /\ e.responses # << >>
                          => /\ (L # {}) <=> Accepted(logging)
                             /\ \A j \in L :
                                    e.logged[j]
                                        = log_response(logging,
                                                       e.responses[1])

\* Two sends have returned, one whose logger printed the request and was
\* passed the response and one whose logger's filter dropped the request,
\* and they were served by a loop whose logger printed the requests and was
\* passed the responses it wrote.
C31_Witness ==
    /\ Accepted(sockets[host_vst_control][1].logging)
    /\ \E p, q \in Finished :
           LET e1 == exchanges[p[1]][p[2]]
               e2 == exchanges[q[1]][q[2]]
           IN  /\ Accepted(e1.logging)
               /\ LoggedResponses(e1.logged) # {}
               /\ e2.logging.has_value
               /\ ~e2.logging.log_request
               /\ LoggedResponses(e2.logged) = {}
    /\ \E c \in Connections :
           \E i \in DOMAIN served[host_vst_control][c] :
               LoggedResponses(served[host_vst_control][c][i].logged) # {}

HasNullByte(_iid) ==
    \E i \in DOMAIN FIDString[_iid] :
        i <= uid_size /\ FIDString[_iid][i] = 0

\* The arguments createInstance rejects as invalid: a null pointer, or an
\* interface id with a null byte.
InvalidCreateArgs(a) ==
    \/ a[1] = nullptr
    \/ a[2] = nullptr
    \/ a[3] = nullptr
    \/ HasNullByte(a[2])

\* C33: createInstance sends a Construct message if and only if the class
\* id, the interface id and the output pointer are non-null, the interface
\* id has no null byte in its 16 bytes and it is the id of IComponent or of
\* IEditController; the message then carries that class id and interface.
\* Otherwise nothing is sent and no proxy is created: the call returns
\* kInvalidArgument for the invalid arguments and, for any other interface,
\* kNotImplemented with the output object set to null.
C33_ConstructSentIffArgumentsValid ==
    [][\A a \in CreateArgs :
           ( /\ ret'.op \in {"createInstance", NoReturn.op}
             /\ createInstance(a[1], a[2], a[3]) ) =>
               LET valid == /\ ~InvalidCreateArgs(a)
                            /\ a[2] \in {"IComponent", "IEditController"}
               IN  /\ request' # request <=> valid
                   /\ proxies' = proxies
                   /\ valid =>
                          /\ request' = [type |-> "Construct", cid |-> a[1],
                                         requested_interface |-> a[2]]
                          /\ pc' = "createInstance"
                   /\ ~valid =>
                          /\ pc' = "idle"
                          /\ ret'.op = "createInstance"
                          /\ ret'.h = 0
                          /\ IF InvalidCreateArgs(a)
                             THEN ret'.result = kInvalidArgument
                             ELSE /\ ret'.result = kNotImplemented
                                  /\ ret'.obj = nullptr]_vars

\* createInstance has rejected the interface id of FUnknown, which is 16
\* bytes long and holds null bytes, while no proxy exists and nothing has
\* been sent.
C33_Witness ==
    /\ ret.op = "createInstance"
    /\ ret.iid = "FUnknown"
    /\ ret.result = kInvalidArgument
    /\ proxies = << >>
    /\ request = NoMessage

\* The call of the host that a step from idle to idle has made on proxy h.
Called(op, h) == pc = "idle" /\ pc' = "idle" /\ ret'.op = op /\ ret'.h = h

\* C34: the reference count of a proxy starts at one, a successful
\* queryInterface and an addRef each add exactly one to it, an unsuccessful
\* queryInterface leaves it as it is, a release takes exactly one from it,
\* and no other step changes it. The proxy is deleted in the release that
\* brings the count to zero and in no other step, so it is destroyed exactly
\* when the releases equal one plus the addRef calls and the successful
\* queries; while it is alive the count is at least one.
C34_ReferenceCountTracksQueries ==
    /\ [](\A h \in Handles : Alive(h) => proxies[h].refCount >= 1)
    /\ [][/\ \A h \in DOMAIN proxies' \ DOMAIN proxies :
                 proxies'[h].state = "alive" /\ proxies'[h].refCount = 1
          /\ \A h \in Handles :
                 Alive(h) =>
                     LET before == proxies[h].refCount
                         deleted == proxies'[h].state # "alive"
                         after == IF deleted THEN 0 ELSE proxies'[h].refCount
                     IN  /\ Called("queryInterface", h) =>
                                IF ret'.result = kResultOk
                                THEN after = before + 1
                                ELSE proxies' = proxies
                         /\ after = before + 1 =>
                                \/ Called("addRef", h)
                                \/ Called("queryInterface", h)
                         /\ after < before =>
                                /\ after = before - 1
                                /\ pc = "idle"
                                /\ \/ Called("release", h)
                                   \/ pc' = "release" /\ frame'.h = h
                         /\ after \in {before - 1, before, before + 1}
                         /\ deleted <=> (after = 0 /\ before = 1)
                         /\ deleted => proxies'[h].state = "destructing"
          /\ \A h \in Handles :
                 ~Alive(h) => h \in DOMAIN proxies'
                                  /\ proxies'[h].state # "alive"]_vars

\* One proxy has been destroyed by the release of its last reference, and a
\* query on another proxy has just succeeded and left it with two
\* references.
C34_Witness ==
    \E h1, h2 \in Handles :
        /\ proxies[h1].state = "destroyed"
        /\ Alive(h2)
        /\ ret.op = "queryInterface"
        /\ ret.h = h2
        /\ ret.result = kResultOk
        /\ proxies[h2].refCount = 2

\* C35: a query for FUnknown is answered through the plugin-base
\* sub-implementation only. It returns kResultOk, with the IPluginBase
\* pointer, if and only if the descriptor marks plugin-base present, and
\* kNoInterface with a null pointer otherwise, whatever other capabilities
\* the descriptor marks present. Checked on the call the host has just made
\* and on every proxy that exists.
C35_FUnknownThroughPluginBaseOnly ==
    /\ (ret.op = "queryInterface" /\ ret.iid = "FUnknown") =>
           IF proxies[ret.h].arguments_.supported["YaPluginBase"]
           THEN ret.result = kResultOk /\ ret.obj = "IPluginBase"
           ELSE ret.result = kNoInterface /\ ret.obj = nullptr
    /\ \A h \in Handles :
           Alive(h) =>
               LET r == queryInterface(proxies[h], "FUnknown")
               IN  /\ r.result = kResultOk
                          <=> proxies[h].arguments_.supported["YaPluginBase"]
                   /\ r.result # kResultOk
                          => r.result = kNoInterface /\ r.obj = nullptr

\* A FUnknown query has been answered kNoInterface by a proxy whose
\* descriptor marks the component and the audio processor present but not
\* plugin-base.
C35_Witness ==
    /\ ret.op = "queryInterface"
    /\ ret.iid = "FUnknown"
    /\ ret.result = kNoInterface
    /\ Alive(ret.h)
    /\ ~proxies[ret.h].arguments_.supported["YaPluginBase"]
    /\ \E c \in Caps \ {NoteExpressionPhysicalUIMapping} :
           proxies[ret.h].arguments_.supported[c]

\* The calls of add_audio_processor_and_connect that have returned, as
\* <<thread, position in the thread's history>>.
ConnectCalls ==
    Returned("add_audio_processor_and_connect", "void")
        \cup Returned("add_audio_processor_and_connect", "system_error")

\* C36: a registry holds at most one fast channel per instance id. Each key
\* of the map has one channel, bound to the endpoint of that id, and no two
\* keys share an endpoint. Adding a channel for an id the map already holds
\* keeps the channel object that is there: over every step a channel of the
\* map keeps its endpoint, its role and, once it is connected, its
\* connection, and an add puts at most its own id into the map.
C36_OneChannelPerInstance ==
    /\ [](\A s \in Sides :
              LET map == audio_processor_sockets_[s]
              IN  /\ DOMAIN map \subseteq InstanceIds
                  /\ \A i \in DOMAIN map :
                         map[i].endpoint
                             = audio_processor_endpoint(base_dir, i)
                  /\ \A i, j \in DOMAIN map :
                         map[i].endpoint = map[j].endpoint => i = j)
    /\ [][\A s \in Sides :
              LET map == audio_processor_sockets_[s]
                  next_map == audio_processor_sockets_'[s]
              IN  /\ Cardinality(DOMAIN next_map \ DOMAIN map) <= 1
                  /\ \A t \in Threads :
                         ( /\ calls[t].pc = "locked"
                           /\ calls'[t].pc # "locked"
                           /\ SideOf(t) = s
                           /\ calls[t].op \in
                                  {"add_audio_processor_and_connect",
                                   "add_audio_processor_and_listen"} )
                             => DOMAIN next_map
                                    = DOMAIN map \cup {calls[t].instance_id}
                  /\ \A i \in DOMAIN map \cap DOMAIN next_map :
                         /\ next_map[i].endpoint = map[i].endpoint
                         /\ next_map[i].listen = map[i].listen
                         /\ map[i].wire # NoChannel
                                => next_map[i] = map[i]]_vars

\* The plugin side has added the channel of an instance twice: the first
\* call connected it, the second found it in the map and left it connected.
C36_Witness ==
    \E p, q \in ConnectCalls :
        /\ p[1] # q[1]
        /\ returned[p[1]][p[2]].instance_id
               = returned[q[1]][q[2]].instance_id
        /\ returned[p[1]][p[2]].result = "void"
        /\ returned[q[1]][q[2]].result = "system_error"
        /\ LET i == returned[p[1]][p[2]].instance_id
           IN  /\ i \in DOMAIN audio_processor_sockets_["plugin"]
               /\ audio_processor_sockets_["plugin"][i].wire
                      = audio_processor(i)
               /\ sockets[audio_processor(i)][1].open

\* The threads that are executing on the fast channel of an instance on a
\* side: a thread of the host inside receive_into() on the channel object
\* of the plugin side, and the thread of the Wine plugin host that is
\* connecting the channel object or running its serve loop.
ExecutingOn(s, instance) ==
    {t \in Threads :
        /\ SideOf(t) = s
        /\ \/ /\ calls[t].pc = "receive_into"
              /\ calls[t].ch = audio_processor(instance)
           \/ /\ calls[t].pc = "receive_messages"
              /\ calls[t].op = "add_audio_processor_and_listen"
              /\ calls[t].instance_id = instance}

\* C37: no fast channel is erased from the registry while another thread is
\* still executing on it: as long as a send for an id is inside
\* receive_into(), or the serve loop of the id runs, the channel object of
\* the id is in the map of that side.
C37_NoEraseWhileInUse ==
    \A s \in Sides, i \in InstanceIds :
        ExecutingOn(s, i) # {}
            => i \in DOMAIN audio_processor_sockets_[s]

\* C38: in add_audio_processor_and_listen(id) the lookups of id made after
\* the insertion always find the channel that was inserted: no call ends
\* with the std::out_of_range of at(), or in a lookup that raced with an
\* insert or an erase of another thread, whatever remove_audio_processor()
\* and add calls the other threads make meanwhile.
C38_LookupsFindInsertedChannel ==
    /\ Returned("add_audio_processor_and_listen", "out_of_range") = {}
    /\ Returned("add_audio_processor_and_listen", "undefined") = {}
    /\ \A t \in Threads :
           ( /\ calls[t].pc \in {"set_value", "connect", "receive_messages"}
             /\ calls[t].op = "add_audio_processor_and_listen" )
               => calls[t].instance_id
                      \in DOMAIN audio_processor_sockets_[SideOf(t)]

====
